---- MODULE Spec2Model ----
(***************************************************************************)
(* Model of the health-risk assessment of the repository: HealthScorer     *)
(* (src/health_scorer.py), FeatureMapper (src/feature_mapper.py), the four *)
(* condition models (src/models) and their callers.                        *)
(*                                                                         *)
(* Numbers.  Python floats are modelled as decimal fixed point: every      *)
(* percentage is an integer count of thousandths of a percent (29.996 is   *)
(* 29996, 100 is 100000); a value rounded to 2 decimals is a multiple of   *)
(* 10.  Weights are integer hundredths (0.25 is 25), so a score times a    *)
(* weight is an exact integer in units of 10^-5 percent.  round() is       *)
(* Python's round-half-to-even, applied to the exact decimal value; on a   *)
(* decimal tie (x.xx5) the binary float may lie on either side of the tie, *)
(* so there the code's result can differ from the model's by 0.01.  No     *)
(* property below depends on the direction in which a tie is resolved.     *)
(* Strings keep the source's wording except for the emoji prefixes.        *)
(***************************************************************************)
EXTENDS Integers, Sequences, FiniteSets, TLC

VARIABLES
    weights,          \* self.weights          : condition -> hundredths
    risk_thresholds,  \* self.risk_thresholds  : name -> percent
    input,            \* the caller's data: a risk_scores dict or one score
    op,               \* name of the last HealthScorer method called
    result,           \* what that call returned or raised
    printed,          \* what that call wrote to standard output
    log,              \* the calls made so far, where a run records them
    model,            \* self.model of each condition model: None or classifier
    stored,           \* the file at each model_path: None or classifier
    feature_sets,     \* the caller's feature records: condition -> dict
    pipeline,         \* app.py's global pipeline: None or the pipeline
    session,          \* the web session: None or assessment_results
    threads,          \* the assess_health calls in progress, one per caller
    encoded_columns   \* self.encoded_columns of the models that keep one

vars == <<weights, risk_thresholds, input, op, result, printed, log,
          model, stored, feature_sets, pipeline, session,
          threads, encoded_columns>>

\* The keys of risk_scores and of self.weights, in the order every method
\* reads them.
ConditionOrder == <<"heart", "diabetes", "hypertension", "obesity">>

Conditions == {ConditionOrder[i] : i \in 1..Len(ConditionOrder)}

-----------------------------------------------------------------------------
(* Arithmetic helpers *)

\* Python round(): the integer nearest to n/d (d > 0), a tie going to the
\* even neighbour.
RoundHalfEven(n, d) ==
    LET q == n \div d
        r == n % d
    IN  IF 2 * r < d THEN q
        ELSE IF 2 * r > d THEN q + 1
        ELSE IF q % 2 = 0 THEN q ELSE q + 1

\* round(x, 2) of a value held in thousandths: a multiple of 10 thousandths.
Round2(x) == 10 * RoundHalfEven(x, 10)

\* format(x, '.1f') of a value held in thousandths: a multiple of 100.
Fmt1(x) == 100 * RoundHalfEven(x, 100)

-----------------------------------------------------------------------------
(* Return values *)

Float(x)     == [kind |-> "float", value |-> x]
Str(s)       == [kind |-> "str", value |-> s]
List(l)      == [kind |-> "list", value |-> l]
Dict(d)      == [kind |-> "dict", value |-> d]
NoneValue    == [kind |-> "None"]
\* risk_scores[k] on a dict without key k
KeyError(k)  == [kind |-> "raise", type |-> "KeyError", key |-> k]

Raised(r) == r.kind = "raise"

\* The first key, in reading order, that risk_scores lacks (0 when none).
RECURSIVE FirstMissingFrom(_, _)
FirstMissingFrom(risk_scores, i) ==
    IF i > Len(ConditionOrder) THEN 0
    ELSE IF ConditionOrder[i] \notin DOMAIN risk_scores THEN i
    ELSE FirstMissingFrom(risk_scores, i + 1)

FirstMissing(risk_scores) == FirstMissingFrom(risk_scores, 1)

-----------------------------------------------------------------------------
(* HealthScorer.__init__ *)

\* Variant: the heart weight raised without lowering another.
InitWeights_Unnormalised ==
    [heart |-> 35, diabetes |-> 25, hypertension |-> 25, obesity |-> 25]

InitWeights ==
    [heart |-> 25, diabetes |-> 25, hypertension |-> 25, obesity |-> 25]

InitThresholds ==
    [low |-> 30, moderate |-> 50, high |-> 70, critical |-> 85]

-----------------------------------------------------------------------------
(* Pure methods, as operators over the scorer's tables *)

\* The weighted sum before rounding, in units of 10^-5 percent.
WeightedSum(w, risk_scores) ==
    risk_scores["heart"] * w["heart"] +
    risk_scores["diabetes"] * w["diabetes"] +
    risk_scores["hypertension"] * w["hypertension"] +
    risk_scores["obesity"] * w["obesity"]

\* Variant: the sum cut to 2 decimals instead of rounded.
calculate_composite_risk_Truncating(w, risk_scores) ==
    IF FirstMissing(risk_scores) # 0
    THEN KeyError(ConditionOrder[FirstMissing(risk_scores)])
    ELSE Float(10 * (WeightedSum(w, risk_scores) \div 1000))

\* Variant: risk_scores.get(k, 0) in place of risk_scores[k].
calculate_composite_risk_ZeroFill(w, risk_scores) ==
    LET filled == [c \in Conditions |->
                     IF c \in DOMAIN risk_scores THEN risk_scores[c] ELSE 0]
    IN  Float(10 * RoundHalfEven(WeightedSum(w, filled), 1000))

calculate_composite_risk(w, risk_scores) ==
    IF FirstMissing(risk_scores) # 0
    THEN KeyError(ConditionOrder[FirstMissing(risk_scores)])
    ELSE Float(10 * RoundHalfEven(WeightedSum(w, risk_scores), 1000))

\* Variant: round(health_score) without the number of decimals.
calculate_health_score_WholeNumber(w, risk_scores) ==
    LET composite_risk == calculate_composite_risk(w, risk_scores)
    IN  IF Raised(composite_risk) THEN composite_risk
        ELSE Float(1000 * RoundHalfEven(100000 - composite_risk.value, 1000))

calculate_health_score(w, risk_scores) ==
    LET composite_risk == calculate_composite_risk(w, risk_scores)
    IN  IF Raised(composite_risk) THEN composite_risk
        ELSE Float(Round2(100000 - composite_risk.value))

\* Variant: <= in place of <, a threshold value falling in the lower bucket.
get_risk_level_Inclusive(th, risk_score) ==
    IF risk_score <= th["low"] * 1000 THEN "low"
    ELSE IF risk_score <= th["moderate"] * 1000 THEN "moderate"
    ELSE IF risk_score <= th["high"] * 1000 THEN "high"
    ELSE IF risk_score <= th["critical"] * 1000 THEN "very high"
    ELSE "critical"

get_risk_level(th, risk_score) ==
    IF risk_score < th["low"] * 1000 THEN "low"
    ELSE IF risk_score < th["moderate"] * 1000 THEN "moderate"
    ELSE IF risk_score < th["high"] * 1000 THEN "high"
    ELSE IF risk_score < th["critical"] * 1000 THEN "very high"
    ELSE "critical"

\* Variant: > in place of >=, a breakpoint value falling in the lower grade.
get_health_grade_Exclusive(health_score) ==
    IF health_score > 90000 THEN "A+"
    ELSE IF health_score > 80000 THEN "A"
    ELSE IF health_score > 70000 THEN "B"
    ELSE IF health_score > 60000 THEN "C"
    ELSE IF health_score > 50000 THEN "D"
    ELSE "F"

get_health_grade(health_score) ==
    IF health_score >= 90000 THEN "A+"
    ELSE IF health_score >= 80000 THEN "A"
    ELSE IF health_score >= 70000 THEN "B"
    ELSE IF health_score >= 60000 THEN "C"
    ELSE IF health_score >= 50000 THEN "D"
    ELSE "F"

-----------------------------------------------------------------------------
(* generate_recommendations *)

\* The title each condition's headline starts with.
Title ==
    [heart        |-> "HEART HEALTH",
     diabetes     |-> "DIABETES",
     hypertension |-> "BLOOD PRESSURE",
     obesity      |-> "WEIGHT MANAGEMENT"]

\* The four branches of each condition's if/elif chain: the severity word
\* and the advice of the headline, and the bullet lines appended after it.
Branches ==
    [heart |->
       [critical |-> [label |-> "CRITICAL", advice |-> "Seek immediate medical attention.",
                      bullets |-> <<"   - Schedule urgent cardiology appointment",
                                    "   - Monitor blood pressure and cholesterol daily",
                                    "   - Avoid strenuous activities until cleared by doctor">>],
        high     |-> [label |-> "High", advice |-> "Consult a cardiologist soon.",
                      bullets |-> <<"   - Monitor blood pressure and cholesterol regularly",
                                    "   - Engage in 30+ minutes of cardio exercise daily",
                                    "   - Reduce saturated fat and sodium intake">>],
        moderate |-> [label |-> "Moderate", advice |-> "Take preventive measures.",
                      bullets |-> <<"   - Regular cardiovascular exercise (walking, cycling)",
                                    "   - Maintain healthy weight and cholesterol levels">>],
        low      |-> [label |-> "Low", advice |-> "Keep up the good work!",
                      bullets |-> <<"   - Continue healthy lifestyle habits">>]],
     diabetes |->
       [critical |-> [label |-> "CRITICAL", advice |-> "Get tested immediately.",
                      bullets |-> <<"   - Schedule urgent blood glucose test (HbA1c)",
                                    "   - Strictly limit sugar and refined carbs",
                                    "   - Consider consulting an endocrinologist">>],
        high     |-> [label |-> "High", advice |-> "Get blood sugar tested.",
                      bullets |-> <<"   - Monitor glucose levels regularly",
                                    "   - Reduce sugar and refined carbohydrate intake",
                                    "   - Increase fiber-rich foods and whole grains">>],
        moderate |-> [label |-> "Moderate", advice |-> "Focus on prevention.",
                      bullets |-> <<"   - Maintain healthy weight through diet and exercise",
                                    "   - Limit sugary beverages and processed foods">>],
        low      |-> [label |-> "Low", advice |-> "Excellent!",
                      bullets |-> <<"   - Maintain balanced diet with controlled portions">>]],
     hypertension |->
       [critical |-> [label |-> "CRITICAL", advice |-> "Check BP now!",
                      bullets |-> <<"   - Measure blood pressure immediately",
                                    "   - Strictly limit sodium (<1500mg/day)",
                                    "   - Avoid stress and seek medical help">>],
        high     |-> [label |-> "High", advice |-> "Monitor BP regularly.",
                      bullets |-> <<"   - Reduce sodium intake (< 2000mg/day)",
                                    "   - Practice stress management techniques",
                                    "   - Avoid excessive alcohol and caffeine">>],
        moderate |-> [label |-> "Moderate", advice |-> "Take preventive steps.",
                      bullets |-> <<"   - Maintain regular sleep schedule (7-8 hours)",
                                    "   - Engage in regular physical activity">>],
        low      |-> [label |-> "Low", advice |-> "Great!",
                      bullets |-> <<"   - Continue healthy habits and regular exercise">>]],
     obesity |->
       [critical |-> [label |-> "CRITICAL", advice |-> "Urgent action needed.",
                      bullets |-> <<"   - Consult healthcare provider for weight management plan",
                                    "   - Consider supervised weight loss program",
                                    "   - Address underlying health conditions">>],
        high     |-> [label |-> "High", advice |-> "Action needed.",
                      bullets |-> <<"   - Consult a nutritionist for personalized diet plan",
                                    "   - Aim for gradual weight loss (1-2 lbs/week)",
                                    "   - Combine cardio and strength training exercises">>],
        moderate |-> [label |-> "Moderate", advice |-> "Room for improvement.",
                      bullets |-> <<"   - Maintain calorie balance and portion control",
                                    "   - Increase daily physical activity">>],
        low      |-> [label |-> "Low", advice |-> "Healthy weight!",
                      bullets |-> <<"   - Maintain current healthy eating patterns">>]]]

\* f"{Title}: {score:.1f}% risk - {label}. {advice}"
Headline(cond, score, branch) ==
    [kind |-> "headline", cond |-> cond, title |-> Title[cond],
     pct |-> Fmt1(score), label |-> branch.label, advice |-> branch.advice]

Bullet(text) == [kind |-> "bullet", text |-> text]

BulletLines(texts) == [i \in 1..Len(texts) |-> Bullet(texts[i])]

\* Variant: the headline alone, its bullet lines left out.
BlockOf_HeadlineOnly(cond, score, branch) ==
    <<Headline(cond, score, branch)>>

BlockOf(cond, score, branch) ==
    <<Headline(cond, score, branch)>> \o BulletLines(branch.bullets)

\* One condition's if/elif chain over its level; a level matching no branch
\* appends nothing.
ConditionBlock(cond, level, score) ==
    IF level \in {"critical", "very high"}
    THEN BlockOf(cond, score, Branches[cond]["critical"])
    ELSE IF level = "high" THEN BlockOf(cond, score, Branches[cond]["high"])
    ELSE IF level = "moderate" THEN BlockOf(cond, score, Branches[cond]["moderate"])
    ELSE IF level = "low" THEN BlockOf(cond, score, Branches[cond]["low"])
    ELSE << >>

SummaryBlock ==
    <<[kind |-> "summary", text |-> "EXCELLENT OVERALL HEALTH STATUS!"],
      Bullet("   - Continue maintaining healthy lifestyle habits"),
      Bullet("   - Regular health checkups for prevention")>>

\* Variant: the blocks in the order the pipeline scores the conditions
\* (diabetes first).
generate_recommendations_DiabetesFirst(th, risk_scores) ==
    IF FirstMissing(risk_scores) # 0
    THEN KeyError(ConditionOrder[FirstMissing(risk_scores)])
    ELSE
    LET levels == [c \in Conditions |-> get_risk_level(th, risk_scores[c])]
        blocks ==
            ConditionBlock("diabetes", levels["diabetes"], risk_scores["diabetes"]) \o
            ConditionBlock("heart", levels["heart"], risk_scores["heart"]) \o
            ConditionBlock("hypertension", levels["hypertension"], risk_scores["hypertension"]) \o
            ConditionBlock("obesity", levels["obesity"], risk_scores["obesity"])
    IN  IF \A c \in Conditions : levels[c] = "low"
        THEN List(blocks \o SummaryBlock)
        ELSE List(blocks)

\* Variant: any() in place of all() in the test for the summary block.
generate_recommendations_AnyLow(th, risk_scores) ==
    IF FirstMissing(risk_scores) # 0
    THEN KeyError(ConditionOrder[FirstMissing(risk_scores)])
    ELSE
    LET levels == [c \in Conditions |-> get_risk_level(th, risk_scores[c])]
        blocks ==
            ConditionBlock("heart", levels["heart"], risk_scores["heart"]) \o
            ConditionBlock("diabetes", levels["diabetes"], risk_scores["diabetes"]) \o
            ConditionBlock("hypertension", levels["hypertension"], risk_scores["hypertension"]) \o
            ConditionBlock("obesity", levels["obesity"], risk_scores["obesity"])
    IN  IF \E c \in Conditions : levels[c] = "low"
        THEN List(blocks \o SummaryBlock)
        ELSE List(blocks)

generate_recommendations(th, risk_scores) ==
    IF FirstMissing(risk_scores) # 0
    THEN KeyError(ConditionOrder[FirstMissing(risk_scores)])
    ELSE
    LET heart_level        == get_risk_level(th, risk_scores["heart"])
        diabetes_level     == get_risk_level(th, risk_scores["diabetes"])
        hypertension_level == get_risk_level(th, risk_scores["hypertension"])
        obesity_level      == get_risk_level(th, risk_scores["obesity"])
        blocks ==
            ConditionBlock("heart", heart_level, risk_scores["heart"]) \o
            ConditionBlock("diabetes", diabetes_level, risk_scores["diabetes"]) \o
            ConditionBlock("hypertension", hypertension_level, risk_scores["hypertension"]) \o
            ConditionBlock("obesity", obesity_level, risk_scores["obesity"])
    IN  IF \A level \in {heart_level, diabetes_level, hypertension_level, obesity_level} :
               level = "low"
        THEN List(blocks \o SummaryBlock)
        ELSE List(blocks)

-----------------------------------------------------------------------------
(* generate_health_report *)

\* A reference to the scorer's own weight table: the report's weights_used
\* entry is the object self.weights itself, not a copy of it.
SelfWeights == [ref |-> "self.weights"]

RiskEntry(th, score) ==
    [score |-> Round2(score), level |-> get_risk_level(th, score)]

\* Variant: the grade taken from composite_risk instead of health_score.
generate_health_report_GradeOfRisk(w, th, risk_scores) ==
    LET composite_risk  == calculate_composite_risk(w, risk_scores)
        health_score    == calculate_health_score(w, risk_scores)
        recommendations == generate_recommendations(th, risk_scores)
    IN  IF Raised(composite_risk) THEN composite_risk
        ELSE IF Raised(health_score) THEN health_score
        ELSE IF Raised(recommendations) THEN recommendations
        ELSE Dict(
          [individual_risks |->
             [heart_disease |-> RiskEntry(th, risk_scores["heart"]),
              diabetes      |-> RiskEntry(th, risk_scores["diabetes"]),
              hypertension  |-> RiskEntry(th, risk_scores["hypertension"]),
              obesity       |-> RiskEntry(th, risk_scores["obesity"])],
           composite_risk  |-> composite_risk.value,
           health_score    |-> health_score.value,
           risk_level      |-> get_risk_level(th, composite_risk.value),
           health_grade    |-> get_health_grade(composite_risk.value),
           recommendations |-> recommendations.value,
           weights_used    |-> SelfWeights])

\* Variant: the overall risk_level taken from health_score instead of
\* composite_risk.
generate_health_report_LevelOfHealth(w, th, risk_scores) ==
    LET composite_risk  == calculate_composite_risk(w, risk_scores)
        health_score    == calculate_health_score(w, risk_scores)
        recommendations == generate_recommendations(th, risk_scores)
    IN  IF Raised(composite_risk) THEN composite_risk
        ELSE IF Raised(health_score) THEN health_score
        ELSE IF Raised(recommendations) THEN recommendations
        ELSE Dict(
          [individual_risks |->
             [heart_disease |-> RiskEntry(th, risk_scores["heart"]),
              diabetes      |-> RiskEntry(th, risk_scores["diabetes"]),
              hypertension  |-> RiskEntry(th, risk_scores["hypertension"]),
              obesity       |-> RiskEntry(th, risk_scores["obesity"])],
           composite_risk  |-> composite_risk.value,
           health_score    |-> health_score.value,
           risk_level      |-> get_risk_level(th, health_score.value),
           health_grade    |-> get_health_grade(health_score.value),
           recommendations |-> recommendations.value,
           weights_used    |-> SelfWeights])

\* The recommendations of the most recent generate_health_report call that
\* the log records (none: the empty list).
RECURSIVE LastRecommendations(_)
LastRecommendations(calls) ==
    IF calls = << >> THEN << >>
    ELSE LET last == calls[Len(calls)]
         IN  IF last.op = "generate_health_report" /\ last.result.kind = "dict"
             THEN last.result.value.recommendations
             ELSE LastRecommendations(SubSeq(calls, 1, Len(calls) - 1))

\* Variant: the recommendation list kept on the scorer and appended to by
\* every call, rather than created afresh in generate_recommendations.
generate_health_report_Accumulating(w, th, risk_scores) ==
    LET composite_risk  == calculate_composite_risk(w, risk_scores)
        health_score    == calculate_health_score(w, risk_scores)
        recommendations == generate_recommendations(th, risk_scores)
    IN  IF Raised(composite_risk) THEN composite_risk
        ELSE IF Raised(health_score) THEN health_score
        ELSE IF Raised(recommendations) THEN recommendations
        ELSE Dict(
          [individual_risks |->
             [heart_disease |-> RiskEntry(th, risk_scores["heart"]),
              diabetes      |-> RiskEntry(th, risk_scores["diabetes"]),
              hypertension  |-> RiskEntry(th, risk_scores["hypertension"]),
              obesity       |-> RiskEntry(th, risk_scores["obesity"])],
           composite_risk  |-> composite_risk.value,
           health_score    |-> health_score.value,
           risk_level      |-> get_risk_level(th, composite_risk.value),
           health_grade    |-> get_health_grade(health_score.value),
           recommendations |-> LastRecommendations(log) \o recommendations.value,
           weights_used    |-> SelfWeights])

generate_health_report(w, th, risk_scores) ==
    LET composite_risk  == calculate_composite_risk(w, risk_scores)
        health_score    == calculate_health_score(w, risk_scores)
        recommendations == generate_recommendations(th, risk_scores)
    IN  IF Raised(composite_risk) THEN composite_risk
        ELSE IF Raised(health_score) THEN health_score
        ELSE IF Raised(recommendations) THEN recommendations
        ELSE Dict(
          [individual_risks |->
             [heart_disease |-> RiskEntry(th, risk_scores["heart"]),
              diabetes      |-> RiskEntry(th, risk_scores["diabetes"]),
              hypertension  |-> RiskEntry(th, risk_scores["hypertension"]),
              obesity       |-> RiskEntry(th, risk_scores["obesity"])],
           composite_risk  |-> composite_risk.value,
           health_score    |-> health_score.value,
           risk_level      |-> get_risk_level(th, composite_risk.value),
           health_grade    |-> get_health_grade(health_score.value),
           recommendations |-> recommendations.value,
           weights_used    |-> SelfWeights])

-----------------------------------------------------------------------------
(* print_health_report *)

Upper(level) ==
    CASE level = "low"       -> "LOW"
      [] level = "moderate"  -> "MODERATE"
      [] level = "high"      -> "HIGH"
      [] level = "very high" -> "VERY HIGH"
      [] level = "critical"  -> "CRITICAL"

\* The lines print_health_report formats from the report; weights_used is
\* read through the reference, so the percentages are those of the weight
\* table at the time of printing.
PrintedReport(w, report) ==
    LET risks == report.individual_risks
        RiskLine(k) == [score |-> Fmt1(risks[k].score), level |-> Upper(risks[k].level)]
    IN  [overall   |-> [health_score |-> Fmt1(report.health_score),
                        grade |-> report.health_grade],
         composite |-> [composite_risk |-> Fmt1(report.composite_risk),
                        level |-> Upper(report.risk_level)],
         breakdown |-> <<RiskLine("heart_disease"), RiskLine("diabetes"),
                         RiskLine("hypertension"), RiskLine("obesity")>>,
         weighting |-> [c \in Conditions |-> w[c]],
         recommendations |-> report.recommendations]

-----------------------------------------------------------------------------
(* Python values of user records and feature records.  A number is the     *)
(* exact rational v/per (per > 0): user inputs are whole numbers (per = 1) *)
(* and the code's divisions and roundings produce the other denominators.  *)

Num(v, per) == [kind |-> "num", v |-> v, per |-> per]
Whole(n)    == Num(n, 1)
Text(s)     == [kind |-> "text", s |-> s]

IsNum(x)  == x.kind = "num"
IsText(x) == x.kind = "text"

\* An exception other than KeyError leaving the call.
Raise(type) == [kind |-> "raise", type |-> type]

\* x < n/d and x >= n/d for a number x and whole n, d > 0.
Less(x, n, d)    == x.v * d < n * x.per
AtLeast(x, n, d) == ~Less(x, n, d)

\* x == n for a value x and a whole number n (a string never equals one).
EqualsWhole(x, n) == IsNum(x) /\ x.v = n * x.per

\* dict.get(key, default)
Get(d, key, default) == IF key \in DOMAIN d THEN d[key] ELSE default

\* str.lower() on the strings that occur as inputs.
Lower(s) ==
    CASE s = "Male"   -> "male"
      [] s = "MALE"   -> "male"
      [] s = "M"      -> "m"
      [] s = "Female" -> "female"
      [] s = "Yes"    -> "yes"
      [] s = "YES"    -> "yes"
      [] s = "No"     -> "no"
      [] OTHER        -> s

\* x.lower(): a str method, so AttributeError on a number.
LowerOf(x) == IF IsText(x) THEN Text(Lower(x.s)) ELSE Raise("AttributeError")

\* The first raised exception among the results, in evaluation order
\* (NoneValue when nothing raised).
RECURSIVE FirstRaised(_)
FirstRaised(xs) ==
    IF xs = << >> THEN NoneValue
    ELSE IF Raised(xs[1]) THEN xs[1]
    ELSE FirstRaised(Tail(xs))

-----------------------------------------------------------------------------
(* FeatureMapper *)

\* calculate_bmi(height_cm, weight_kg): round(weight / (height / 100) ** 2, 2)
calculate_bmi(height_cm, weight_kg) ==
    IF ~IsNum(height_cm) \/ ~IsNum(weight_kg) THEN Raise("TypeError")
    ELSE IF height_cm.v = 0 THEN Raise("ZeroDivisionError")
    ELSE Num(RoundHalfEven(weight_kg.v * 10000 * height_cm.per * height_cm.per * 100,
                           weight_kg.per * height_cm.v * height_cm.v),
             100)

\* The default argument of user_data.get('bmi', ...), evaluated whether or
\* not the record holds 'bmi'.
DefaultBmi(user_data) ==
    calculate_bmi(Get(user_data, "height", Whole(170)), Get(user_data, "weight", Whole(70)))

\* The default argument of user_data.get('diabetes_pedigree', ...):
\* 0.5 if family_history_diabetes.lower() == 'yes' else 0.2
DefaultPedigree(user_data) ==
    LET lowered == LowerOf(Get(user_data, "family_history_diabetes", Text("no")))
    IN  IF Raised(lowered) THEN lowered
        ELSE IF lowered.s = "yes" THEN Num(5, 10) ELSE Num(2, 10)

map_to_diabetes_features(user_data) ==
    LET bmi      == DefaultBmi(user_data)
        pedigree == DefaultPedigree(user_data)
        raised   == FirstRaised(<<bmi, pedigree>>)
    IN  IF Raised(raised) THEN raised
        ELSE Dict(
          [Pregnancies   |-> Get(user_data, "pregnancies", Whole(0)),
           Glucose       |-> Get(user_data, "glucose",
                                 Get(user_data, "fasting_glucose", Whole(100))),
           BloodPressure |-> Get(user_data, "blood_pressure",
                                 Get(user_data, "systolic_bp", Whole(80))),
           SkinThickness |-> Get(user_data, "skin_thickness", Whole(20)),
           Insulin       |-> Get(user_data, "insulin", Whole(80)),
           BMI           |-> Get(user_data, "bmi", bmi),
           DiabetesPedigreeFunction |-> Get(user_data, "diabetes_pedigree", pedigree),
           Age           |-> Get(user_data, "age", Whole(30))])

\* 1 if gender.lower() in ['male', 'm', '1'] else 0
SexOf(user_data) ==
    LET lowered == LowerOf(Get(user_data, "gender", Text("male")))
    IN  IF Raised(lowered) THEN lowered
        ELSE IF lowered.s \in {"male", "m", "1"} THEN Whole(1) ELSE Whole(0)

\* 1 if user_data.get('fasting_glucose', 100) > 120 else 0
FbsOf(user_data) ==
    LET fasting_glucose == Get(user_data, "fasting_glucose", Whole(100))
    IN  IF ~IsNum(fasting_glucose) THEN Raise("TypeError")
        ELSE IF fasting_glucose.v > 120 * fasting_glucose.per THEN Whole(1) ELSE Whole(0)

\* 1 if exercise_induced_angina.lower() == 'yes' else 0
ExangOf(user_data) ==
    LET lowered == LowerOf(Get(user_data, "exercise_induced_angina", Text("no")))
    IN  IF Raised(lowered) THEN lowered
        ELSE IF lowered.s = "yes" THEN Whole(1) ELSE Whole(0)

map_to_heart_features(user_data) ==
    LET sex    == SexOf(user_data)
        fbs    == FbsOf(user_data)
        exang  == ExangOf(user_data)
        raised == FirstRaised(<<sex, fbs, exang>>)
    IN  IF Raised(raised) THEN raised
        ELSE Dict(
          [age      |-> Get(user_data, "age", Whole(30)),
           sex      |-> sex,
           cp       |-> Get(user_data, "chest_pain_type", Whole(0)),
           trestbps |-> Get(user_data, "systolic_bp",
                            Get(user_data, "resting_bp", Whole(120))),
           chol     |-> Get(user_data, "cholesterol", Whole(200)),
           fbs      |-> fbs,
           restecg  |-> Get(user_data, "resting_ecg", Whole(0)),
           thalach  |-> Get(user_data, "max_heart_rate", Whole(150)),
           exang    |-> exang,
           oldpeak  |-> Get(user_data, "st_depression", Whole(0)),
           slope    |-> Get(user_data, "slope_st_segment", Whole(1)),
           ca       |-> Get(user_data, "num_major_vessels", Whole(0)),
           thal     |-> Get(user_data, "thalassemia", Whole(2))])

map_to_hypertension_features(user_data) ==
    LET bmi == DefaultBmi(user_data)
    IN  IF Raised(bmi) THEN bmi
        ELSE Dict(
          [Age          |-> Get(user_data, "age", Whole(30)),
           BMI          |-> Get(user_data, "bmi", bmi),
           Cholesterol  |-> Get(user_data, "cholesterol", Whole(200)),
           Systolic_BP  |-> Get(user_data, "systolic_bp", Whole(120)),
           Diastolic_BP |-> Get(user_data, "diastolic_bp", Whole(80)),
           Smoking_Status |-> Get(user_data, "smoking_status", Text("Never")),
           Alcohol_Intake |-> Get(user_data, "alcohol_intake", Text("None")),
           Physical_Activity_Level |-> Get(user_data, "physical_activity", Text("Moderate")),
           Family_History |-> Get(user_data, "family_history_hypertension", Text("No")),
           Diabetes     |-> Get(user_data, "has_diabetes", Text("No")),
           Stress_Level |-> Get(user_data, "stress_level", Text("Moderate")),
           Salt_Intake  |-> Get(user_data, "salt_intake", Text("Moderate")),
           Sleep_Duration |-> Get(user_data, "sleep_hours", Whole(7)),
           Heart_Rate   |-> Get(user_data, "resting_heart_rate", Whole(70)),
           LDL          |-> Get(user_data, "ldl", Whole(100)),
           HDL          |-> Get(user_data, "hdl", Whole(50)),
           Triglycerides |-> Get(user_data, "triglycerides", Whole(150)),
           Glucose      |-> Get(user_data, "glucose",
                                Get(user_data, "fasting_glucose", Whole(100))),
           Gender       |-> Get(user_data, "gender", Text("Male"))])

\* user_data.get('height', 170) / 100
HeightInMetres(user_data) ==
    LET height == Get(user_data, "height", Whole(170))
    IN  IF ~IsNum(height) THEN Raise("TypeError")
        ELSE Num(height.v, height.per * 100)

map_to_obesity_features(user_data) ==
    LET Height == HeightInMetres(user_data)
    IN  IF Raised(Height) THEN Height
        ELSE Dict(
          [Gender |-> Get(user_data, "gender", Text("Male")),
           Age    |-> Get(user_data, "age", Whole(30)),
           Height |-> Height,
           Weight |-> Get(user_data, "weight", Whole(70)),
           family_history_with_overweight |->
               Get(user_data, "family_history_overweight", Text("no")),
           FAVC   |-> Get(user_data, "frequent_high_caloric_food", Text("no")),
           FCVC   |-> Get(user_data, "vegetable_consumption_frequency", Whole(2)),
           NCP    |-> Get(user_data, "num_main_meals", Whole(3)),
           CAEC   |-> Get(user_data, "food_between_meals", Text("Sometimes")),
           SMOKE  |-> Get(user_data, "smokes", Text("no")),
           CH2O   |-> Get(user_data, "daily_water_consumption", Whole(2)),
           SCC    |-> Get(user_data, "calorie_monitoring", Text("no")),
           FAF    |-> Get(user_data, "physical_activity_frequency", Whole(1)),
           TUE    |-> Get(user_data, "tech_usage_time", Whole(1)),
           CALC   |-> Get(user_data, "alcohol_consumption", Text("no")),
           MTRANS |-> Get(user_data, "transportation_mode", Text("Public_Transportation"))])

get_all_features(user_data) ==
    LET diabetes     == map_to_diabetes_features(user_data)
        heart        == map_to_heart_features(user_data)
        hypertension == map_to_hypertension_features(user_data)
        obesity      == map_to_obesity_features(user_data)
        raised       == FirstRaised(<<diabetes, heart, hypertension, obesity>>)
    IN  IF Raised(raised) THEN raised
        ELSE Dict([diabetes     |-> diabetes.value,
                   heart        |-> heart.value,
                   hypertension |-> hypertension.value,
                   obesity      |-> obesity.value])

-----------------------------------------------------------------------------
(* The four condition models (src/models).  self.model is None or the      *)
(* loaded classifier; the file at model_path is absent (None) or holds a   *)
(* pickled classifier.  A classifier is held with the answer it gives for  *)
(* the feature record at hand: predict_proba's probability of the positive *)
(* class (a number in [0,1]) and, for the obesity model, the class label.  *)
(* Every model call yields the value it returns or raises (out), the new   *)
(* self.model (model) and what it printed.                                 *)

Classifier(probability, label) ==
    [kind |-> "classifier", probability |-> probability, label |-> label]

\* raise Exception("Model not trained or loaded")
NotLoaded == [kind |-> "raise", type |-> "Exception",
              message |-> "Model not trained or loaded"]

ModelTitle == [diabetes |-> "Diabetes", heart |-> "Heart",
               hypertension |-> "Hypertension", obesity |-> "Obesity"]

\* load_model(): the same in all four classes, up to the name printed.
load_model(cond, file) ==
    IF file # NoneValue
    THEN [out |-> TRUE, model |-> file,
          printed |-> <<ModelTitle[cond] \o " model loaded successfully">>]
    ELSE [out |-> FALSE, model |-> NoneValue,
          printed |-> <<"No saved model found at saved_models/" \o cond \o "_model.pkl">>]

\* A mutation: the classifier loaded anew on every call.
EnsureLoaded_Reloading(cond, self_model, file) ==
    LET loaded == load_model(cond, file)
    IN  [out |-> IF loaded.out THEN NoneValue ELSE NotLoaded,
         model |-> loaded.model, printed |-> loaded.printed]

\* The head of every predict(): load the classifier when there is none, and
\* raise when that fails.
EnsureLoaded(cond, self_model, file) ==
    IF self_model # NoneValue
    THEN [out |-> NoneValue, model |-> self_model, printed |-> << >>]
    ELSE LET loaded == load_model(cond, file)
         IN  [out |-> IF loaded.out THEN NoneValue ELSE NotLoaded,
              model |-> loaded.model, printed |-> loaded.printed]

\* The strings that occur as inputs and that float() converts, with their
\* values.
Numerals == ("0" :> 0) @@ ("45" :> 45) @@ ("92" :> 92) @@ ("130" :> 130) @@ ("178" :> 178)

IsNumeral(s) == s \in DOMAIN Numerals

\* float(x): ValueError on a string that is no numeral.
FloatOf(x) ==
    IF IsNum(x) THEN x
    ELSE IF IsNumeral(x.s) THEN Whole(Numerals[x.s])
    ELSE Raise("ValueError")

\* A random forest fed np.array([[...]]): a string among the entries makes
\* a string array, which the forest's input validation converts to floats
\* and rejects when an entry is no numeral.
ArrayAnswer(classifier, entries) ==
    IF \E i \in 1..Len(entries) : Raised(FloatOf(entries[i])) THEN Raise("ValueError")
    ELSE classifier

\* A classifier fed pd.get_dummies(DataFrame([features])) aligned to the
\* training columns: a string becomes indicator columns, and a training
\* column that is absent is filled with 0, so every record is answered.
FrameAnswer(classifier, features) == classifier

DiabetesModel_predict(self_model, file, features) ==
    LET head == EnsureLoaded("diabetes", self_model, file)
    IN  IF Raised(head.out) THEN head
        ELSE [head EXCEPT !.out = ArrayAnswer(head.model,
                <<Get(features, "Pregnancies", Whole(0)),
                  Get(features, "Glucose", Whole(0)),
                  Get(features, "BloodPressure", Whole(0)),
                  Get(features, "SkinThickness", Whole(0)),
                  Get(features, "Insulin", Whole(0)),
                  Get(features, "BMI", Whole(0)),
                  Get(features, "DiabetesPedigreeFunction", Num(5, 10)),
                  Get(features, "Age", Whole(0))>>)]

\* probability * 100, as a percentage in thousandths (exact for the
\* denominators in use, which divide 100000).
TimesHundred(probability) == Float(probability.v * (100000 \div probability.per))

DiabetesModel_get_risk_score(self_model, file, features) ==
    LET predicted == DiabetesModel_predict(self_model, file, features)
    IN  IF Raised(predicted.out) THEN predicted
        ELSE [predicted EXCEPT !.out = TimesHundred(predicted.out.probability)]

HypertensionModel_predict(self_model, file, features) ==
    LET head == EnsureLoaded("hypertension", self_model, file)
    IN  IF Raised(head.out) THEN head
        ELSE [head EXCEPT !.out = FrameAnswer(head.model, features)]

HypertensionModel_get_risk_score(self_model, file, features) ==
    LET predicted == HypertensionModel_predict(self_model, file, features)
    IN  IF Raised(predicted.out) THEN predicted
        ELSE [predicted EXCEPT !.out = TimesHundred(predicted.out.probability)]

HeartModel_predict(self_model, file, features) ==
    LET head == EnsureLoaded("heart", self_model, file)
    IN  IF Raised(head.out) THEN head
        ELSE [head EXCEPT !.out = ArrayAnswer(head.model,
                <<Get(features, "age", Whole(0)),
                  Get(features, "sex", Whole(0)),
                  Get(features, "cp", Whole(0)),
                  Get(features, "trestbps", Whole(0)),
                  Get(features, "chol", Whole(0)),
                  Get(features, "fbs", Whole(0)),
                  Get(features, "restecg", Whole(0)),
                  Get(features, "thalach", Whole(0)),
                  Get(features, "exang", Whole(0)),
                  Get(features, "oldpeak", Whole(0)),
                  Get(features, "slope", Whole(0)),
                  Get(features, "ca", Whole(0)),
                  Get(features, "thal", Whole(0))>>)]

\* One factor of the clinical rule: the points it adds to risk_factors and
\* to max_factors.  A comparison of a string with a number is a TypeError.
Factor(points, cap) == [kind |-> "factor", points |-> points, cap |-> cap]

AgeFactor(features) ==
    LET age == Get(features, "age", Whole(0))
    IN  IF ~IsNum(age) THEN Raise("TypeError")
        ELSE Factor(IF AtLeast(age, 65, 1) THEN 20
                    ELSE IF AtLeast(age, 55, 1) THEN 15
                    ELSE IF AtLeast(age, 45, 1) THEN 10
                    ELSE IF AtLeast(age, 35, 1) THEN 5
                    ELSE 0, 20)

BloodPressureFactor(features) ==
    LET bp == Get(features, "trestbps", Whole(120))
    IN  IF ~IsNum(bp) THEN Raise("TypeError")
        ELSE Factor(IF AtLeast(bp, 180, 1) THEN 20
                    ELSE IF AtLeast(bp, 160, 1) THEN 15
                    ELSE IF AtLeast(bp, 140, 1) THEN 10
                    ELSE IF AtLeast(bp, 130, 1) THEN 5
                    ELSE IF AtLeast(bp, 120, 1) THEN 2
                    ELSE 0, 20)

CholesterolFactor(features) ==
    LET chol == Get(features, "chol", Whole(200))
    IN  IF ~IsNum(chol) THEN Raise("TypeError")
        ELSE Factor(IF AtLeast(chol, 280, 1) THEN 20
                    ELSE IF AtLeast(chol, 240, 1) THEN 15
                    ELSE IF AtLeast(chol, 220, 1) THEN 10
                    ELSE IF AtLeast(chol, 200, 1) THEN 5
                    ELSE IF AtLeast(chol, 180, 1) THEN 2
                    ELSE 0, 20)

\* max_hr < (220 - age) * percent / 100
BelowExpected(max_hr, age, percent) ==
    max_hr.v * age.per * 100 < (220 * age.per - age.v) * percent * max_hr.per

MaxHeartRateFactor(features) ==
    LET max_hr == Get(features, "thalach", Whole(150))
        age    == Get(features, "age", Whole(30))
    IN  IF ~IsNum(age) \/ ~IsNum(max_hr) THEN Raise("TypeError")
        ELSE Factor(IF BelowExpected(max_hr, age, 65) THEN 15
                    ELSE IF BelowExpected(max_hr, age, 75) THEN 10
                    ELSE IF BelowExpected(max_hr, age, 85) THEN 5
                    ELSE IF BelowExpected(max_hr, age, 90) THEN 2
                    ELSE 0, 15)

FastingSugarFactor(features) ==
    Factor(IF EqualsWhole(Get(features, "fbs", Whole(0)), 1) THEN 10 ELSE 0, 10)

\* A mutation: chest pain always counted, an absent 'cp' reading as 0.
ChestPainFactor_AlwaysCounted(features) ==
    LET cp == Get(features, "cp", Whole(0))
    IN  IF ~IsNum(cp) THEN Raise("TypeError")
        ELSE Factor(IF EqualsWhole(cp, 0) THEN 15
                    ELSE IF EqualsWhole(cp, 1) THEN 10
                    ELSE IF EqualsWhole(cp, 2) THEN 5
                    ELSE 0, 15)

\* Chest pain adds to both sums only when cp >= 0; a record without 'cp'
\* reads as -1.
ChestPainFactor(features) ==
    LET cp == Get(features, "cp", Whole(-1))
    IN  IF ~IsNum(cp) THEN Raise("TypeError")
        ELSE IF AtLeast(cp, 0, 1)
             THEN Factor(IF EqualsWhole(cp, 0) THEN 15
                         ELSE IF EqualsWhole(cp, 1) THEN 10
                         ELSE IF EqualsWhole(cp, 2) THEN 5
                         ELSE 0, 15)
             ELSE Factor(0, 0)

ClinicalFactors(features) ==
    <<AgeFactor(features), BloodPressureFactor(features),
      CholesterolFactor(features), MaxHeartRateFactor(features),
      FastingSugarFactor(features), ChestPainFactor(features)>>

RECURSIVE SumPoints(_)
SumPoints(factors) ==
    IF factors = << >> THEN 0 ELSE factors[1].points + SumPoints(Tail(factors))

RECURSIVE SumCaps(_)
SumCaps(factors) ==
    IF factors = << >> THEN 0 ELSE factors[1].cap + SumCaps(Tail(factors))

\* A mutation: the blend truncated to a whole percent instead of rounded
\* to 2 decimals.
HeartBlend_Truncating(probability, risk_factors, max_factors, ml_share, clinical_share) ==
    1000 * ((ml_share * probability.v * max_factors
                + clinical_share * risk_factors * probability.per)
            \div (probability.per * max_factors))

\* round(probability * 100 * ml_share/100 + risk_factors / max_factors * 100
\* * clinical_share/100, 2), in thousandths; clinical_risk is 50 when
\* max_factors is 0.
HeartBlend(probability, risk_factors, max_factors, ml_share, clinical_share) ==
    IF max_factors > 0
    THEN 10 * RoundHalfEven(
             100 * ml_share * probability.v * max_factors
                 + 100 * clinical_share * risk_factors * probability.per,
             probability.per * max_factors)
    ELSE 10 * RoundHalfEven(100 * ml_share * probability.v
                                + 50 * clinical_share * probability.per,
                            probability.per)

HeartModel_get_risk_score(self_model, file, features) ==
    LET predicted == HeartModel_predict(self_model, file, features)
        factors   == ClinicalFactors(features)
        raised    == FirstRaised(factors)
    IN  IF Raised(predicted.out) THEN predicted
        ELSE IF Raised(raised) THEN [predicted EXCEPT !.out = raised]
        ELSE [predicted EXCEPT !.out =
                 Float(HeartBlend(predicted.out.probability,
                                  SumPoints(factors), SumCaps(factors), 30, 70))]

ObesityModel_predict(self_model, file, features) ==
    LET head == EnsureLoaded("obesity", self_model, file)
    IN  IF Raised(head.out) THEN head
        ELSE [head EXCEPT !.out = FrameAnswer(head.model, features)]

\* bmi < limit/10, where bmi = weight / height ** 2.
BmiBelow(weight, height, limit) ==
    weight.v * height.per * height.per * 10 < limit * weight.per * height.v * height.v

\* A mutation: the bucket bounds taken inclusively (bmi <= bound).
bmi_risk_Inclusive(weight, height) ==
    LET AtMost(limit) ==
            weight.v * height.per * height.per * 10 <= limit * weight.per * height.v * height.v
    IN  IF AtMost(185) THEN 25
        ELSE IF AtMost(250) THEN 5
        ELSE IF AtMost(270) THEN 35
        ELSE IF AtMost(300) THEN 50
        ELSE IF AtMost(350) THEN 70
        ELSE IF AtMost(400) THEN 85
        ELSE 95

bmi_risk(weight, height) ==
    IF BmiBelow(weight, height, 185) THEN 25
    ELSE IF BmiBelow(weight, height, 250) THEN 5
    ELSE IF BmiBelow(weight, height, 270) THEN 35
    ELSE IF BmiBelow(weight, height, 300) THEN 50
    ELSE IF BmiBelow(weight, height, 350) THEN 70
    ELSE IF BmiBelow(weight, height, 400) THEN 85
    ELSE 95

class_risk_mapping == <<25, 5, 35, 50, 70, 85, 95>>

\* A mutation: an unknown class label scored as 500.
model_risk_Unbounded(prediction) ==
    IF prediction \in 0..6 THEN class_risk_mapping[prediction + 1] ELSE 500

\* class_risk_mapping.get(prediction, 50); the labels are 0..6.
model_risk(prediction) ==
    IF prediction \in 0..6 THEN class_risk_mapping[prediction + 1] ELSE 50

\* round(bmi_risk * 0.80 + model_risk * 0.20, 2), in thousandths.
ObesityBlend(bmi_points, model_points) ==
    10 * RoundHalfEven(100 * (80 * bmi_points + 20 * model_points), 100)

ObesityModel_get_risk_score(self_model, file, features) ==
    LET height == Get(features, "Height", Num(17, 10))
        weight == Get(features, "Weight", Whole(70))
    IN  IF ~IsNum(height) \/ ~IsNum(weight)
        THEN [out |-> Raise("TypeError"), model |-> self_model, printed |-> << >>]
        ELSE IF height.v = 0
        THEN [out |-> Raise("ZeroDivisionError"), model |-> self_model, printed |-> << >>]
        ELSE LET predicted == ObesityModel_predict(self_model, file, features)
             IN  IF Raised(predicted.out) THEN predicted
                 ELSE [predicted EXCEPT !.out =
                          Float(ObesityBlend(bmi_risk(weight, height),
                                             model_risk(predicted.out.label)))]

predict(cond, self_model, file, features) ==
    CASE cond = "diabetes"     -> DiabetesModel_predict(self_model, file, features)
      [] cond = "heart"        -> HeartModel_predict(self_model, file, features)
      [] cond = "hypertension" -> HypertensionModel_predict(self_model, file, features)
      [] cond = "obesity"      -> ObesityModel_predict(self_model, file, features)

get_risk_score(cond, self_model, file, features) ==
    CASE cond = "diabetes"     -> DiabetesModel_get_risk_score(self_model, file, features)
      [] cond = "heart"        -> HeartModel_get_risk_score(self_model, file, features)
      [] cond = "hypertension" -> HypertensionModel_get_risk_score(self_model, file, features)
      [] cond = "obesity"      -> ObesityModel_get_risk_score(self_model, file, features)

-----------------------------------------------------------------------------
(* Inputs *)

\* How far below a threshold, in thousandths of a percent, the just-below
\* sample scores lie.
NearMiss == 4

ThresholdValues == {InitThresholds[k] : k \in DOMAIN InitThresholds}

GradeBreakpoints == {50, 60, 70, 80, 90}

\* Per-condition risk scores: the ends of the range, one score inside the
\* lowest bucket, each threshold, and a score just below the lowest and the
\* highest threshold.
ScoreSamples ==
    {0, 10000, 100000} \cup
    {t * 1000 : t \in ThresholdValues} \cup
    {t * 1000 - NearMiss : t \in {InitThresholds["low"], InitThresholds["critical"]}}

\* The scores of the __main__ block of health_scorer.py.
test_scores ==
    [heart |-> 65500, diabetes |-> 42000, hypertension |-> 58300, obesity |-> 35000]

\* A heart score of 90 beside three low scores.
heart90_scores ==
    [heart |-> 90000, diabetes |-> 10000, hypertension |-> 10000, obesity |-> 10000]

CompleteScores ==
    [Conditions -> ScoreSamples] \cup {test_scores, heart90_scores}

\* risk_scores dicts lacking at least one condition.
IncompleteScores ==
    UNION {[D -> {10000, 100000}] : D \in (SUBSET Conditions) \ {Conditions}}

RiskScoreInputs == CompleteScores \cup IncompleteScores

\* Single scores for get_risk_level: the per-condition samples, a grid over
\* [0,100], and values outside it.
LevelInputs ==
    ScoreSamples \cup {k * 2500 : k \in 0..40} \cup {-5000, 100010, 250000}

\* Single scores for get_health_grade.
GradeInputs ==
    {k * 2500 : k \in 0..40} \cup
    {b * 1000 - 10 : b \in GradeBreakpoints} \cup {-5000, 100010, 250000}

-----------------------------------------------------------------------------
(* The state machine: a HealthScorer and the calls a caller makes on it.   *)
(* The caller holds either a risk_scores dict or a single score, fixed at  *)
(* the start, and calls the methods that take it in any order.             *)

RiskScores(d) == [kind |-> "risk_scores", value |-> d]
Score(x)      == [kind |-> "score", value |-> x]

NothingPrinted == [kind |-> "nothing"]

\* The lines a model call wrote to standard output.
Lines(l) == IF l = << >> THEN NothingPrinted ELSE [kind |-> "lines", value |-> l]

\* No classifier in any model object, or no file at any model_path.
NoModels == [c \in Conditions |-> NoneValue]

Init ==
    /\ weights = InitWeights
    /\ risk_thresholds = InitThresholds
    /\ input \in {RiskScores(d) : d \in RiskScoreInputs} \cup
                 {Score(x) : x \in LevelInputs \cup GradeInputs}
    /\ op = "__init__"
    /\ result = NoneValue
    /\ printed = NothingPrinted
    /\ log = << >>
    /\ model = NoModels
    /\ stored = NoModels
    /\ feature_sets = NoneValue
    /\ pipeline = NoneValue
    /\ session = NoneValue
    /\ threads = << >>
    /\ encoded_columns = NoneValue

CalculateCompositeRisk ==
    /\ input.kind = "risk_scores"
    /\ op' = "calculate_composite_risk"
    /\ result' = calculate_composite_risk(weights, input.value)
    /\ printed' = NothingPrinted
    /\ UNCHANGED <<weights, risk_thresholds, input>>

CalculateHealthScore ==
    /\ input.kind = "risk_scores"
    /\ op' = "calculate_health_score"
    /\ result' = calculate_health_score(weights, input.value)
    /\ printed' = NothingPrinted
    /\ UNCHANGED <<weights, risk_thresholds, input>>

GetRiskLevel ==
    /\ input.kind = "score"
    /\ op' = "get_risk_level"
    /\ result' = Str(get_risk_level(risk_thresholds, input.value))
    /\ printed' = NothingPrinted
    /\ UNCHANGED <<weights, risk_thresholds, input>>

GetHealthGrade ==
    /\ input.kind = "score"
    /\ op' = "get_health_grade"
    /\ result' = Str(get_health_grade(input.value))
    /\ printed' = NothingPrinted
    /\ UNCHANGED <<weights, risk_thresholds, input>>

GenerateRecommendations ==
    /\ input.kind = "risk_scores"
    /\ op' = "generate_recommendations"
    /\ result' = generate_recommendations(risk_thresholds, input.value)
    /\ printed' = NothingPrinted
    /\ UNCHANGED <<weights, risk_thresholds, input>>

GenerateHealthReport ==
    /\ input.kind = "risk_scores"
    /\ op' = "generate_health_report"
    /\ result' = generate_health_report(weights, risk_thresholds, input.value)
    /\ printed' = NothingPrinted
    /\ UNCHANGED <<weights, risk_thresholds, input>>

\* print_health_report(report), called with the report the scorer has just
\* returned.
PrintHealthReport ==
    /\ op = "generate_health_report"
    /\ result.kind = "dict"
    /\ op' = "print_health_report"
    /\ result' = NoneValue
    /\ printed' = PrintedReport(weights, result.value)
    /\ UNCHANGED <<weights, risk_thresholds, input>>

\* What a scorer call leaves alone besides the scorer's own state.
Unlogged == UNCHANGED <<log, model, stored, feature_sets, pipeline, session,
                       threads, encoded_columns>>

Next ==
    \/ CalculateCompositeRisk /\ Unlogged
    \/ CalculateHealthScore /\ Unlogged
    \/ GetRiskLevel /\ Unlogged
    \/ GetHealthGrade /\ Unlogged
    \/ GenerateRecommendations /\ Unlogged
    \/ GenerateHealthReport /\ Unlogged
    \/ PrintHealthReport /\ Unlogged

Spec == Init /\ [][Next]_vars

-----------------------------------------------------------------------------
(* The same scorer with its calls recorded: a caller makes up to MaxCalls  *)
(* calls on one risk_scores dict, and the log keeps each call's method and *)
(* return value.                                                           *)

MaxCalls == 3

RepeatInputs ==
    [Conditions -> {10000, 85000 - NearMiss}] \cup {test_scores} \cup
    {[c \in Conditions \ {"obesity"} |-> 10000]}

InitRepeat ==
    /\ weights = InitWeights
    /\ risk_thresholds = InitThresholds
    /\ input \in {RiskScores(d) : d \in RepeatInputs}
    /\ op = "__init__"
    /\ result = NoneValue
    /\ printed = NothingPrinted
    /\ log = << >>
    /\ model = NoModels
    /\ stored = NoModels
    /\ feature_sets = NoneValue
    /\ pipeline = NoneValue
    /\ session = NoneValue
    /\ threads = << >>
    /\ encoded_columns = NoneValue

Logged ==
    /\ Len(log) < MaxCalls
    /\ log' = Append(log, [op |-> op', result |-> result'])
    /\ UNCHANGED <<model, stored, feature_sets, pipeline, session,
                   threads, encoded_columns>>

NextRepeat ==
    \/ CalculateCompositeRisk /\ Logged
    \/ CalculateHealthScore /\ Logged
    \/ GenerateRecommendations /\ Logged
    \/ GenerateHealthReport /\ Logged
    \/ PrintHealthReport /\ Logged

SpecRepeat == InitRepeat /\ [][NextRepeat]_vars

-----------------------------------------------------------------------------
(* A consumer of returned reports. The weights_used entry of a report is   *)
(* the scorer's own dict, so an item assignment through it writes the      *)
(* scorer's table; rebinding a key of the report changes the report only.  *)

\* Weights a consumer writes, in hundredths.
ConsumerWeights == {0, 50}

\* report['weights_used'][cond] = weight, on the report just returned.
SetWeightsUsedItem ==
    /\ op \in {"generate_health_report", "consumer"}
    /\ result.kind = "dict"
    /\ result.value.weights_used = SelfWeights
    /\ \E cond \in Conditions, weight \in ConsumerWeights :
           weights' = [weights EXCEPT ![cond] = weight]
    /\ op' = "consumer"
    /\ UNCHANGED <<risk_thresholds, input, result, printed>>

\* report[key] = None, on the report just returned.
SetReportKey ==
    /\ op \in {"generate_health_report", "consumer"}
    /\ result.kind = "dict"
    /\ \E key \in {"weights_used", "composite_risk"} :
           result' = [result EXCEPT !.value[key] = NoneValue]
    /\ op' = "consumer"
    /\ UNCHANGED <<weights, risk_thresholds, input, printed>>

NextConsumer ==
    \/ GenerateHealthReport /\ Logged
    \/ PrintHealthReport /\ Logged
    \/ SetWeightsUsedItem /\ Logged
    \/ SetReportKey /\ Logged

SpecConsumer == InitRepeat /\ [][NextConsumer]_vars

-----------------------------------------------------------------------------
(* The feature mapper and the four condition models, called the way        *)
(* HealthAssessmentPipeline.assess_health and the models' own __main__     *)
(* blocks call them: a caller maps a user record with get_all_features and *)
(* passes each feature record to its model, or passes a feature record it  *)
(* built itself.  The classifiers' answers are part of the scenario.       *)

UserData(u) == [kind |-> "user_data", value |-> u]
OwnFeatures == [kind |-> "feature_sets"]

\* A healthy record: every clinical factor of the heart rule adds 0.
HeartBase ==
    [age |-> Whole(30), systolic_bp |-> Whole(110), cholesterol |-> Whole(170),
     max_heart_rate |-> Whole(190), fasting_glucose |-> Whole(100)]

\* Every clinical factor of the heart rule at its cap.
HeartCap ==
    [age |-> Whole(70), systolic_bp |-> Whole(185), cholesterol |-> Whole(290),
     max_heart_rate |-> Whole(90), fasting_glucose |-> Whole(130)]

HeartSweep ==
    {HeartBase, HeartCap} \cup
    {[HeartBase EXCEPT !.age = Whole(a)] : a \in {34, 35, 45, 55, 65}} \cup
    {[HeartBase EXCEPT !.systolic_bp = Whole(b)] : b \in {119, 120, 130, 140, 160, 180}} \cup
    {[HeartBase EXCEPT !.cholesterol = Whole(c)] : c \in {179, 180, 200, 220, 240, 280}} \cup
    {[HeartBase EXCEPT !.max_heart_rate = Whole(h)] : h \in {123, 124, 142, 161, 171}} \cup
    {[HeartBase EXCEPT !.fasting_glucose = Whole(g)] : g \in {120, 121}}

ChestPainTypes == 0 .. 3

HeartUsers ==
    HeartSweep \cup
    {u @@ [chest_pain_type |-> Whole(k)] : u \in HeartSweep, k \in ChestPainTypes}

HeartProbabilities == {Num(0, 1000), Num(337, 1000), Num(1000, 1000)}

\* Heights in cm and weights in kg whose BMI falls in every bucket and on
\* the bucket bounds 18.5 (200 cm, 74 kg) and 25 (200 cm, 100 kg).
ObesityUsers ==
    {[height |-> Whole(h), weight |-> Whole(w)] :
        h \in {160, 175, 200}, w \in {45, 60, 74, 80, 95, 100, 110, 140}}

\* The labels the classifier was trained on are 0..6; 9 stands for any
\* other label.
ClassLabels == 0 .. 6 \cup {9}

\* Records of values the mapper does not expect: a zero or textual height
\* (alone and next to a supplied bmi), numbers where it expects yes/no or
\* a gender, text where it expects a measurement.
OddUsers ==
    {[height |-> Whole(0)],
     [height |-> Whole(0), bmi |-> Num(245, 10)],
     [height |-> Text("tall")],
     [height |-> Text("tall"), bmi |-> Num(245, 10)],
     [weight |-> Text("heavy")],
     [family_history_diabetes |-> Whole(1)],
     [gender |-> Whole(1)],
     [exercise_induced_angina |-> Whole(0)],
     [fasting_glucose |-> Text("high")],
     [age |-> Text("abc")],
     [glucose |-> Text("abc")],
     [cholesterol |-> Text("abc")],
     [gender |-> Text("Female"), family_history_diabetes |-> Text("YES"),
      exercise_induced_angina |-> Text("Yes"), glucose |-> Whole(140),
      fasting_glucose |-> Whole(90), resting_bp |-> Whole(135)]}

Probabilities == {Num(0, 100000), Num(29996, 100000), Num(100000, 100000)}

BaseClassifiers == [c \in Conditions |-> Classifier(Num(337, 1000), 1)]

\* A feature record as a caller builds it: some keys of a mapped record.
Restrict(f, keys) == [k \in DOMAIN f \cap keys |-> f[k]]

ClinicalKeys == {"age", "trestbps", "chol", "thalach", "fbs", "cp"}

OwnHeartFeatures ==
    LET mapped == {map_to_heart_features(u).value : u \in HeartUsers}
    IN  {Restrict(f, DOMAIN f \ {"cp"}) : f \in mapped} \cup
        {Restrict(f, ClinicalKeys) : f \in mapped} \cup
        {Restrict(f, ClinicalKeys \ {"age", "cp"}) : f \in mapped}

OwnObesityFeatures ==
    {[Height |-> Num(175, 100), Weight |-> Whole(95)],
     [Weight |-> Whole(95)],
     [Height |-> Num(0, 1), Weight |-> Whole(70)],
     [Height |-> Text("tall"), Weight |-> Whole(70)]}

Scenario(in, fs, cs) == [input |-> in, features |-> fs, classifiers |-> cs]

ModelScenarios ==
    {Scenario(UserData(u), NoneValue,
              [BaseClassifiers EXCEPT !["heart"] = Classifier(pr, 1)]) :
        u \in HeartUsers, pr \in HeartProbabilities} \cup
    {Scenario(OwnFeatures, [heart |-> f],
              [BaseClassifiers EXCEPT !["heart"] = Classifier(pr, 1)]) :
        f \in OwnHeartFeatures, pr \in HeartProbabilities} \cup
    {Scenario(UserData(u), NoneValue,
              [BaseClassifiers EXCEPT !["obesity"] = Classifier(Num(8, 10), l)]) :
        u \in ObesityUsers, l \in ClassLabels} \cup
    {Scenario(OwnFeatures, [obesity |-> f],
              [BaseClassifiers EXCEPT !["obesity"] = Classifier(Num(8, 10), l)]) :
        f \in OwnObesityFeatures, l \in ClassLabels} \cup
    {Scenario(UserData(u), NoneValue, BaseClassifiers) : u \in OddUsers} \cup
    {Scenario(UserData(HeartBase), NoneValue,
              [BaseClassifiers EXCEPT !["diabetes"] = Classifier(pd, 1),
                                      !["hypertension"] = Classifier(ph, 1)]) :
        pd \in Probabilities, ph \in Probabilities}

\* Every model object holds the classifier saved at its model_path.
InitModels ==
    /\ weights = InitWeights
    /\ risk_thresholds = InitThresholds
    /\ \E scenario \in ModelScenarios :
           /\ input = scenario.input
           /\ feature_sets = scenario.features
           /\ stored = scenario.classifiers
    /\ model = stored
    /\ op = "__init__"
    /\ result = NoneValue
    /\ printed = NothingPrinted
    /\ log = << >>
    /\ pipeline = NoneValue
    /\ session = NoneValue
    /\ threads = << >>
    /\ encoded_columns = NoneValue

\* features = self.feature_mapper.get_all_features(user_data)
GetAllFeatures ==
    /\ input.kind = "user_data"
    /\ LET mapped == get_all_features(input.value)
       IN  /\ result' = mapped
           /\ feature_sets' = IF Raised(mapped) THEN feature_sets ELSE mapped.value
    /\ op' = "get_all_features"
    /\ printed' = NothingPrinted
    /\ UNCHANGED <<input, model, stored>>

\* <model>.get_risk_score(features[cond])
GetRiskScore(cond) ==
    /\ feature_sets # NoneValue
    /\ cond \in DOMAIN feature_sets
    /\ LET call == get_risk_score(cond, model[cond], stored[cond], feature_sets[cond])
       IN  /\ result' = call.out
           /\ model' = [model EXCEPT ![cond] = call.model]
           /\ printed' = Lines(call.printed)
    /\ op' = ModelTitle[cond] \o "Model.get_risk_score"
    /\ UNCHANGED <<input, stored, feature_sets>>

DiabetesGetRiskScore     == GetRiskScore("diabetes")
HeartGetRiskScore        == GetRiskScore("heart")
HypertensionGetRiskScore == GetRiskScore("hypertension")
ObesityGetRiskScore      == GetRiskScore("obesity")

\* What a mapper or model call leaves alone: the scorer, the call log and
\* the web application.
NoScorer == UNCHANGED <<weights, risk_thresholds, log, pipeline, session,
                      threads, encoded_columns>>

NextModels ==
    \/ GetAllFeatures /\ NoScorer
    \/ DiabetesGetRiskScore /\ NoScorer
    \/ HeartGetRiskScore /\ NoScorer
    \/ HypertensionGetRiskScore /\ NoScorer
    \/ ObesityGetRiskScore /\ NoScorer

SpecModels == InitModels /\ [][NextModels]_vars

-----------------------------------------------------------------------------
(* The four model objects as their constructors leave them (self.model is  *)
(* None), with a saved classifier at some of the model paths, called on    *)
(* the feature records of one user.                                        *)

SavedFiles == [Conditions -> {NoneValue, Classifier(Num(337, 1000), 1)}]

InitLoading ==
    /\ weights = InitWeights
    /\ risk_thresholds = InitThresholds
    /\ input = OwnFeatures
    /\ feature_sets = get_all_features(HeartBase).value
    /\ model = NoModels
    /\ stored \in SavedFiles
    /\ op = "__init__"
    /\ result = NoneValue
    /\ printed = NothingPrinted
    /\ log = << >>
    /\ pipeline = NoneValue
    /\ session = NoneValue
    /\ threads = << >>
    /\ encoded_columns = NoneValue

\* <model>.predict(features[cond]); the value returned is the classifier's
\* answer (prediction, probability).
Predict(cond) ==
    /\ feature_sets # NoneValue
    /\ cond \in DOMAIN feature_sets
    /\ LET call == predict(cond, model[cond], stored[cond], feature_sets[cond])
       IN  /\ result' = call.out
           /\ model' = [model EXCEPT ![cond] = call.model]
           /\ printed' = Lines(call.printed)
    /\ op' = ModelTitle[cond] \o "Model.predict"
    /\ UNCHANGED <<input, stored, feature_sets>>

DiabetesPredict     == Predict("diabetes")
HeartPredict        == Predict("heart")
HypertensionPredict == Predict("hypertension")
ObesityPredict      == Predict("obesity")

NextLoading ==
    \/ DiabetesPredict /\ NoScorer
    \/ HeartPredict /\ NoScorer
    \/ HypertensionPredict /\ NoScorer
    \/ ObesityPredict /\ NoScorer
    \/ DiabetesGetRiskScore /\ NoScorer
    \/ HeartGetRiskScore /\ NoScorer
    \/ HypertensionGetRiskScore /\ NoScorer
    \/ ObesityGetRiskScore /\ NoScorer

SpecLoading == InitLoading /\ [][NextLoading]_vars

-----------------------------------------------------------------------------
(* HealthAssessmentPipeline (src/pipeline.py) and the web application      *)
(* (src/app.py).  A message is held as the sequence of its words.          *)

\* str(e)
Message(e) ==
    CASE e = NotLoaded -> <<"Model", "not", "trained", "or", "loaded">>
      [] e.type = "ValueError" -> <<"could", "not", "convert", "string", "to", "float">>
      [] e.type = "TypeError" -> <<"not", "supported", "between", "instances", "of", "str", "and", "int">>
      [] e.type = "ZeroDivisionError" -> <<"float", "division", "by", "zero">>
      [] e.type = "AttributeError" -> <<"object", "has", "no", "attribute", "lower">>
      [] e.type = "KeyError" -> <<e.key>>

\* The order in which assess_health asks the models.
ModelOrder == <<"diabetes", "heart", "hypertension", "obesity">>

\* The value of F at the value of e, with e evaluated once.
Bind(e, F(_)) == CHOOSE y \in {F(x) : x \in {e}} : TRUE

\* Variant: a model that raised is invoked a second time before the
\* failure is passed on.
RECURSIVE ScoreModels_Retrying(_, _, _, _, _, _)
ScoreModels_Retrying(i, models, files, features, risk_scores, calls) ==
    IF i > Len(ModelOrder)
    THEN [out |-> NoneValue, model |-> models, risk_scores |-> risk_scores,
          failed |-> << >>, calls |-> calls]
    ELSE LET cond == ModelOrder[i]
         IN  Bind(get_risk_score(cond, models[cond], files[cond], features[cond]),
                  LAMBDA call :
                    IF Raised(call.out)
                    THEN Bind(get_risk_score(cond, call.model, files[cond], features[cond]),
                              LAMBDA again :
                                [out |-> again.out,
                                 model |-> [models EXCEPT ![cond] = again.model],
                                 risk_scores |-> risk_scores,
                                 failed |-> <<cond>>,
                                 calls |-> calls \o <<cond, cond>>])
                    ELSE Bind([models |-> [models EXCEPT ![cond] = call.model],
                               risk_scores |-> risk_scores @@ (cond :> call.out.value)],
                              LAMBDA next :
                                ScoreModels_Retrying(i + 1, next.models, files, features,
                                                     next.risk_scores,
                                                     Append(calls, cond))))

\* Step 2 of assess_health from the i-th model on: the first failure ends
\* it (failed holds the model that raised, calls the models whose
\* get_risk_score was invoked, in the order of the invocations).
RECURSIVE ScoreModels(_, _, _, _, _, _)
ScoreModels(i, models, files, features, risk_scores, calls) ==
    IF i > Len(ModelOrder)
    THEN [out |-> NoneValue, model |-> models, risk_scores |-> risk_scores,
          failed |-> << >>, calls |-> calls]
    ELSE LET cond == ModelOrder[i]
         IN  Bind(get_risk_score(cond, models[cond], files[cond], features[cond]),
                  LAMBDA call :
                    IF Raised(call.out)
                    THEN [out |-> call.out,
                          model |-> [models EXCEPT ![cond] = call.model],
                          risk_scores |-> risk_scores,
                          failed |-> <<cond>>,
                          calls |-> Append(calls, cond)]
                    ELSE Bind([models |-> [models EXCEPT ![cond] = call.model],
                               risk_scores |-> risk_scores @@ (cond :> call.out.value)],
                              LAMBDA next :
                                ScoreModels(i + 1, next.models, files, features,
                                            next.risk_scores, Append(calls, cond))))

NoScores == [c \in {} |-> 0]

\* Steps 3 and 4 of assess_health, once all four models have scored.
ReportOn(w, th, user_data, features, scored) ==
    Bind(generate_health_report(w, th, scored.risk_scores),
         LAMBDA health_report :
           [out |-> IF Raised(health_report) THEN health_report
                    ELSE Dict(health_report.value @@
                              [user_data |-> user_data, feature_sets |-> features]),
            model |-> scored.model,
            risk_scores |-> scored.risk_scores,
            failed |-> << >>,
            calls |-> scored.calls,
            scorer_calls |-> <<[op |-> "generate_health_report",
                                result |-> health_report]>>])

\* assess_health(user_data): the report or the exception (out), the models
\* afterwards, the scores gathered, the model that failed if one did, and
\* the call made on the scorer if one was made.
assess_health(w, th, models, files, user_data) ==
    Bind(get_all_features(user_data),
         LAMBDA mapped :
           IF Raised(mapped)
           THEN [out |-> mapped, model |-> models, risk_scores |-> NoScores,
                 failed |-> << >>, calls |-> << >>, scorer_calls |-> << >>]
           ELSE Bind(ScoreModels(1, models, files, mapped.value, NoScores, << >>),
                     LAMBDA scored :
                       IF Raised(scored.out)
                       THEN [out |-> scored.out, model |-> scored.model,
                             risk_scores |-> scored.risk_scores,
                             failed |-> scored.failed, calls |-> scored.calls,
                             scorer_calls |-> << >>]
                       ELSE ReportOn(w, th, user_data, mapped.value, scored)))

\* print(f"Error during prediction: {e}")
ErrorLine(e) == Lines(<<<<"Error", "during", "prediction:">> \o Message(e)>>)

\* assess_and_report(user_data): assess_health, then print_report.
assess_and_report(w, th, models, files, user_data) ==
    Bind(assess_health(w, th, models, files, user_data),
         LAMBDA assessed :
           assessed @@
           [printed |-> IF Raised(assessed.out)
                        THEN IF assessed.failed # << >>
                             THEN ErrorLine(assessed.out) ELSE NothingPrinted
                        ELSE Bind(assessed.out.value,
                                  LAMBDA report : PrintedReport(w, report))])

numeric_fields ==
    {"age", "height", "weight", "systolic_bp", "diastolic_bp", "glucose",
     "cholesterol", "ldl", "hdl", "triglycerides", "resting_heart_rate",
     "max_heart_rate", "sleep_hours", "vegetable_consumption_frequency",
     "num_main_meals", "daily_water_consumption", "pregnancies", "insulin",
     "chest_pain_type", "physical_activity_frequency", "tech_usage_time",
     "skin_thickness", "st_depression", "slope_st_segment", "num_major_vessels",
     "thalassemia", "resting_ecg"}

\* bool(value): '' and 0 are false.
Truthy(x) == IF IsNum(x) THEN x.v # 0 ELSE x.s # ""

\* The value api_assess keeps for a form field, None when it drops it.
CoercedField(key, value) ==
    IF ~Truthy(value) THEN NoneValue
    ELSE IF key \in numeric_fields
         THEN IF Raised(FloatOf(value)) THEN NoneValue ELSE FloatOf(value)
         ELSE value

\* user_data as api_assess builds it from the form.
Coerce(form_data) ==
    LET kept == {k \in DOMAIN form_data : CoercedField(k, form_data[k]) # NoneValue}
    IN  [k \in kept |-> CoercedField(k, form_data[k])]

Response(status, body) == [kind |-> "response", status |-> status, body |-> body]

\* A mutation: what was gathered is stored in the session even when the
\* assessment failed.
StoredResults_Partial(sess, assessed, user_data) ==
    IF Raised(assessed.out)
    THEN [report |-> [individual_risks |-> assessed.risk_scores],
          user_data |-> user_data]
    ELSE [report |-> assessed.out.value, user_data |-> user_data]

\* session['assessment_results'] after api_assess (the timestamp is left
\* out): written only once assess_and_report has returned.
StoredResults(sess, assessed, user_data) ==
    IF Raised(assessed.out) THEN sess
    ELSE [report |-> assessed.out.value, user_data |-> user_data]

\* api_assess(): the answer, the session, the models and the scorer calls
\* afterwards.  The optional WhatsApp profile update posts to another
\* service after the session is written and changes none of these.
api_assess(w, th, pipe, models, files, sess, form_data) ==
    IF pipe = NoneValue
    THEN [response |-> Response(500,
              [success |-> FALSE,
               error |-> <<"Health", "assessment", "system", "not", "available.",
                           "Please", "ensure", "all", "models", "are", "properly",
                           "loaded.">>]),
          session |-> sess, model |-> models, scorer_calls |-> << >>,
          printed |-> NothingPrinted]
    ELSE Bind(Coerce(form_data),
              LAMBDA user_data :
                Bind(assess_and_report(w, th, models, files, user_data),
                     LAMBDA assessed :
                       [response |->
                           IF Raised(assessed.out)
                           THEN Response(500,
                                    [success |-> FALSE,
                                     error |-> <<"Assessment", "failed:">>
                                                   \o Message(assessed.out)])
                           ELSE Response(200,
                                    [success |-> TRUE, report |-> assessed.out.value,
                                     redirect_url |-> "/results"]),
                        session |-> StoredResults(sess, assessed, user_data),
                        model |-> assessed.model,
                        scorer_calls |-> assessed.scorer_calls,
                        printed |-> assessed.printed]))

\* results(): the page rendered from the session.
results(sess) ==
    IF sess = NoneValue
    THEN [kind |-> "page", has_results |-> FALSE]
    ELSE [kind |-> "page", has_results |-> TRUE, assessment_data |-> sess.report]

ApiCall(form_data)  == [call |-> "api_assess", arg |-> form_data]
MainCall(user_data) == [call |-> "assess_and_report", arg |-> user_data]

EmptyForm == [k \in {} |-> Text("")]

\* Forms as a browser or a JSON client posts them: complete ones, ones
\* whose fields the coercion drops, and ones with a value that the heart
\* mapping (fasting_glucose, height), the diabetes model (bmi) or the heart
\* model (resting_bp) cannot use.
Forms ==
    {EmptyForm,
     [age |-> Text("45"), height |-> Text("178"), weight |-> Text("92"),
      gender |-> Text("Male")],
     [age |-> Text("abc"), chest_pain_type |-> Whole(0), weight |-> Text("")],
     [bmi |-> Text("abc")],
     [resting_bp |-> Text("abc")],
     [fasting_glucose |-> Text("130")],
     [height |-> Text("0")]}

DirectRecords ==
    {HeartCap, [bmi |-> Text("abc")], [resting_bp |-> Text("abc")]}

Requests == {ApiCall(f) : f \in Forms} \cup {MainCall(u) : u \in DirectRecords}

ThePipeline == [kind |-> "pipeline"]

\* The application after start-up and two requests to come: either the
\* pipeline was built, every model holding its classifier, or building it
\* failed and the global is None.
InitAssess ==
    /\ weights = InitWeights
    /\ risk_thresholds = InitThresholds
    /\ \E first \in Requests, second \in Requests :
           input = [kind |-> "requests", value |-> <<first, second>>, handled |-> 0]
    /\ \/ pipeline = ThePipeline /\ stored = BaseClassifiers /\ model = stored
       \/ pipeline = NoneValue /\ stored = NoModels /\ model = NoModels
    /\ feature_sets = NoneValue
    /\ session = NoneValue
    /\ threads = << >>
    /\ encoded_columns = NoneValue
    /\ op = "__init__"
    /\ result = NoneValue
    /\ printed = NothingPrinted
    /\ log = << >>

NextRequest == input.value[input.handled + 1]

\* POST /api/assess
ApiAssess ==
    /\ input.kind = "requests"
    /\ input.handled < Len(input.value)
    /\ NextRequest.call = "api_assess"
    /\ \E handled \in {api_assess(weights, risk_thresholds, pipeline, model, stored,
                                  session, NextRequest.arg)} :
           /\ result' = handled.response
           /\ session' = handled.session
           /\ model' = handled.model
           /\ log' = log \o handled.scorer_calls
           /\ printed' = handled.printed
    /\ op' = "api_assess"
    /\ input' = [input EXCEPT !.handled = @ + 1]
    /\ UNCHANGED <<weights, risk_thresholds, stored, feature_sets, pipeline,
                   threads, encoded_columns>>

\* pipeline.assess_and_report(user_data), as main.py calls it.
AssessAndReport ==
    /\ input.kind = "requests"
    /\ input.handled < Len(input.value)
    /\ NextRequest.call = "assess_and_report"
    /\ pipeline # NoneValue
    /\ \E assessed \in {assess_and_report(weights, risk_thresholds, model, stored,
                                          NextRequest.arg)} :
           /\ result' = assessed.out
           /\ model' = assessed.model
           /\ log' = log \o assessed.scorer_calls
           /\ printed' = assessed.printed
    /\ op' = "assess_and_report"
    /\ input' = [input EXCEPT !.handled = @ + 1]
    /\ UNCHANGED <<weights, risk_thresholds, stored, feature_sets, pipeline, session,
                   threads, encoded_columns>>

\* GET /results
Results ==
    /\ input.kind = "requests"
    /\ op' = "results"
    /\ result' = results(session)
    /\ printed' = NothingPrinted
    /\ UNCHANGED <<weights, risk_thresholds, input, log, model, stored,
                   feature_sets, pipeline, session, threads,
                   encoded_columns>>

NextAssess ==
    \/ ApiAssess
    \/ AssessAndReport
    \/ Results

SpecAssess == InitAssess /\ [][NextAssess]_vars

-----------------------------------------------------------------------------
(* Properties *)

CalledOn(name) == op = name /\ input.kind = "risk_scores"

Complete(risk_scores) == DOMAIN risk_scores = Conditions

Abs(x) == IF x < 0 THEN -x ELSE x

InRange(risk_scores) == \A c \in DOMAIN risk_scores : risk_scores[c] \in 0..100000

\* C1: calculate_composite_risk on a complete risk_scores returns a number
\* with 2 decimals that is the nearest such number to the sum of
\* score * weight over the four conditions of the fixed weight table.
C1_CompositeIsRoundedWeightedSum ==
    (CalledOn("calculate_composite_risk") /\ Complete(input.value)) =>
        /\ result.kind = "float"
        /\ result.value % 10 = 0
        /\ LET exact == input.value["heart"] * 25 + input.value["diabetes"] * 25 +
                        input.value["hypertension"] * 25 + input.value["obesity"] * 25
           IN  Abs(100 * result.value - exact) <= 500

C1_Witness ==
    /\ CalledOn("calculate_composite_risk")
    /\ input.value = [c \in Conditions |-> IF c = "heart" THEN 29996 ELSE 0]
    /\ result = Float(7500)

\* C2: with a condition's score absent, calculate_composite_risk,
\* calculate_health_score and generate_health_report raise the missing-key
\* error naming an absent condition and return no number and no report.
C2_MissingScoreRaises ==
    ((CalledOn("calculate_composite_risk") \/ CalledOn("calculate_health_score")
        \/ CalledOn("generate_health_report")) /\ ~Complete(input.value)) =>
        /\ result.kind = "raise"
        /\ result.type = "KeyError"
        /\ result.key \in Conditions \ DOMAIN input.value

C2_Witness ==
    /\ CalledOn("generate_health_report")
    /\ DOMAIN input.value = Conditions \ {"obesity"}
    /\ result = KeyError("obesity")

\* C3: for four scores in [0,100], calculate_health_score is 100 minus
\* calculate_composite_risk and both lie in [0,100].
C3_HealthIsHundredMinusComposite ==
    (CalledOn("calculate_health_score") /\ Complete(input.value) /\ InRange(input.value)) =>
        LET composite == calculate_composite_risk(weights, input.value)
        IN  /\ result.kind = "float" /\ composite.kind = "float"
            /\ result.value = 100000 - composite.value
            /\ result.value \in 0..100000
            /\ composite.value \in 0..100000

C3_Witness ==
    /\ CalledOn("calculate_health_score")
    /\ input.value = [c \in Conditions |-> IF c = "heart" THEN 29996 ELSE 0]
    /\ result = Float(92500)

\* C4: the weights sum to 1.0 when the scorer is constructed, and after any
\* sequence of scorer operations the weight table and the threshold table
\* are still the ones set at construction.
C4_TablesConstant ==
    /\ weights["heart"] + weights["diabetes"] + weights["hypertension"]
         + weights["obesity"] = 100
    /\ DOMAIN weights = Conditions
    /\ weights = InitWeights
    /\ risk_thresholds = InitThresholds

C4_Witness ==
    /\ op = "print_health_report"
    /\ printed.weighting = [c \in Conditions |-> 25]
    /\ weights = [c \in Conditions |-> 25]

LevelRank(level) ==
    CASE level = "low"       -> 1
      [] level = "moderate"  -> 2
      [] level = "high"      -> 3
      [] level = "very high" -> 4
      [] level = "critical"  -> 5

C6_HealthGradeBuckets ==
    (op = "get_health_grade" /\ input.kind = "score") =>
        LET x == input.value
        IN  /\ result.kind = "str"
            /\ (90000 <= x) <=> (result.value = "A+")
            /\ (80000 <= x /\ x < 90000) <=> (result.value = "A")
            /\ (70000 <= x /\ x < 80000) <=> (result.value = "B")
            /\ (60000 <= x /\ x < 70000) <=> (result.value = "C")
            /\ (50000 <= x /\ x < 60000) <=> (result.value = "D")
            /\ (x < 50000) <=> (result.value = "F")

C6_Witness ==
    /\ op = "get_health_grade"
    /\ input = Score(50000)
    /\ result = Str("D")

OnTestScores ==
    /\ CalledOn("generate_health_report")
    /\ input.value = test_scores
    /\ \A c \in Conditions : weights[c] = 25

\* C7 as stated: the report for the scores of the __main__ block has
\* composite_risk 50.2, health_score 49.8, risk_level moderate, grade D.
C7_ScenarioA_AsStated ==
    OnTestScores =>
        /\ result.kind = "dict"
        /\ result.value.composite_risk = 50200
        /\ result.value.health_score = 49800
        /\ result.value.risk_level = "moderate"
        /\ result.value.health_grade = "D"

\* C7 as amended: the report for the scores of the __main__ block has
\* composite_risk 50.2, health_score 49.8, risk_level high, grade F.
C7_ScenarioA_Amended ==
    OnTestScores =>
        /\ result.kind = "dict"
        /\ result.value.composite_risk = 50200
        /\ result.value.health_score = 49800
        /\ result.value.risk_level = "high"
        /\ result.value.health_grade = "F"

C7_Witness ==
    /\ OnTestScores
    /\ result.kind = "dict"
    /\ result.value.composite_risk = 50200

\* The recommendation list a call produced: the return value of
\* generate_recommendations or the recommendations entry of a report.
ProducedList ==
    /\ input.kind = "risk_scores"
    /\ \/ op = "generate_recommendations" /\ result.kind = "list"
       \/ op = "generate_health_report" /\ result.kind = "dict"

TheList ==
    IF op = "generate_recommendations" THEN result.value
    ELSE result.value.recommendations

IsHeadline(line) == line.kind = "headline"

IsSummary(line) == line.kind = "summary"

\* C8: in every recommendation list the condition headlines are, in order,
\* heart, diabetes, hypertension, obesity, one each, and the summary
\* headline, when present, comes after all four.
C8_RecommendationOrder ==
    ProducedList =>
        LET headlines == SelectSeq(TheList, IsHeadline)
        IN  /\ [i \in 1..Len(headlines) |-> headlines[i].cond]
                 = <<"heart", "diabetes", "hypertension", "obesity">>
            /\ \A i, j \in 1..Len(TheList) :
                   (IsSummary(TheList[i]) /\ IsHeadline(TheList[j])) => j < i

C8_Witness ==
    /\ ProducedList
    /\ op = "generate_recommendations"
    /\ Len(SelectSeq(TheList, IsHeadline)) = 4
    /\ \E i \in 1..Len(TheList) : IsSummary(TheList[i])

\* C9: a recommendation list holds the "excellent overall health" summary
\* exactly when all four scores are below 30; four scores of 10 give a
\* report with composite_risk 10.0, health_score 90.0, grade A+, level low
\* and the summary.
C9_SummaryIffAllLow ==
    ProducedList =>
        /\ (\E i \in 1..Len(TheList) : IsSummary(TheList[i]))
             <=> (\A c \in Conditions : input.value[c] < 30000)
        /\ (op = "generate_health_report" /\ input.value = [c \in Conditions |-> 10000]) =>
              /\ result.value.composite_risk = 10000
              /\ result.value.health_score = 90000
              /\ result.value.health_grade = "A+"
              /\ result.value.risk_level = "low"
              /\ \E i \in 1..Len(TheList) :
                     TheList[i].kind = "summary"
                     /\ TheList[i].text = "EXCELLENT OVERALL HEALTH STATUS!"

C9_Witness ==
    /\ ProducedList
    /\ op = "generate_health_report"
    /\ input.value = [c \in Conditions |-> 10000]
    /\ \E i \in 1..Len(TheList) : IsSummary(TheList[i])

\* The bucket of the claim's threshold table.
BucketOf(x) ==
    IF x < 30000 THEN "low"
    ELSE IF x < 50000 THEN "moderate"
    ELSE IF x < 70000 THEN "high"
    ELSE IF x < 85000 THEN "very high"
    ELSE "critical"

\* C10: in every report, the level of each individual_risks entry is the
\* threshold bucket of the score reported in that entry.
C10_EntryLevelMatchesEntryScore ==
    (CalledOn("generate_health_report") /\ result.kind = "dict") =>
        \A k \in DOMAIN result.value.individual_risks :
            result.value.individual_risks[k].level
                = BucketOf(result.value.individual_risks[k].score)

-----------------------------------------------------------------------------
(* Properties of the condition models (under SpecModels) *)

\* The heart model has just scored the feature record f.
HeartScored(f) ==
    /\ op = "HeartModel.get_risk_score"
    /\ feature_sets # NoneValue
    /\ "heart" \in DOMAIN feature_sets
    /\ feature_sets.heart = f
    /\ result.kind = "float"

\* The probability the heart classifier answers in this run.
HeartProbability == stored.heart.probability

\* The first five factors of the clinical rule: all but chest pain.
OtherFactors(f) == SubSeq(ClinicalFactors(f), 1, 5)

\* C12: end to end, the heart score of a user record without
\* chest_pain_type leaves chest pain out: no chest-pain points are added
\* and the denominator is 85.
C12_AbsentChestPainLeftOut ==
    (/\ input.kind = "user_data"
     /\ "chest_pain_type" \notin DOMAIN input.value
     /\ op = "HeartModel.get_risk_score"
     /\ result.kind = "float")
        => result.value =
               HeartBlend(HeartProbability, SumPoints(OtherFactors(feature_sets.heart)),
                          85, 30, 70)

\* The caps of the six factors, in the order of the rule: age, blood
\* pressure, cholesterol, maximum heart rate, fasting blood sugar, chest
\* pain.
FactorCaps == <<20, 20, 20, 15, 10, 15>>

\* The feature record reports a chest pain type (a value of 0 or more).
ChestPainReported(f) == "cp" \in DOMAIN f /\ f.cp.v >= 0

\* Scenario E: age 70, trestbps 185, chol 290, thalach below 65% of
\* 220 - age, fbs 1, and no 'cp' key.
ScenarioE(f) ==
    /\ "cp" \notin DOMAIN f
    /\ {"age", "trestbps", "chol", "thalach", "fbs"} \subseteq DOMAIN f
    /\ f.age = Whole(70) /\ f.trestbps = Whole(185) /\ f.chol = Whole(290)
    /\ f.thalach.v * 100 < 65 * (220 - 70) * f.thalach.per
    /\ f.fbs = Whole(1)

\* round(0.30 * (probability * 100) + 0.70 * (points / caps * 100), 2), in
\* thousandths of a percent.
BlendOf(probability, points, caps) ==
    10 * RoundHalfEven(30 * TimesHundred(probability).value * caps + 7000000 * points,
                       1000 * caps)

\* C13: whenever HeartModel scores a feature record, every factor of the
\* clinical rule contributes between 0 and its cap (20/20/20/15/10, and 15
\* for chest pain), chest pain counts toward the denominator exactly when
\* the record reports it, so the clinical risk points/caps*100 lies in
\* [0,100]; a record without 'cp' has denominator 85, and scenario E scores
\* 85/85*100 = 100 on the clinical side.
C13_ClinicalRule ==
    (op = "HeartModel.get_risk_score" /\ result.kind = "float") =>
        LET f       == feature_sets.heart
            factors == ClinicalFactors(f)
        IN  /\ \A i \in 1..5 : factors[i].cap = FactorCaps[i]
            /\ factors[6].cap = IF ChestPainReported(f) THEN FactorCaps[6] ELSE 0
            /\ \A i \in 1..6 : factors[i].points \in 0..factors[i].cap
            /\ SumPoints(factors) \in 0..SumCaps(factors)
            /\ "cp" \notin DOMAIN f =>
                   /\ SumCaps(factors) = 85
                   /\ result.value = BlendOf(HeartProbability,
                                             SumPoints(OtherFactors(f)), 85)
            /\ ScenarioE(f) =>
                   /\ SumPoints(factors) = 85
                   /\ result.value = BlendOf(HeartProbability, 100, 100)

C13_Witness ==
    /\ input.kind = "feature_sets"
    /\ op = "HeartModel.get_risk_score"
    /\ ScenarioE(feature_sets.heart)
    /\ HeartProbability = Num(0, 1000)
    /\ result = Float(70000)

\* C14: the heart score is 0.30 * (probability * 100) + 0.70 * clinical
\* risk, rounded to 2 decimals, the clinical risk being the points of the
\* clinical rule over the caps of the factors that apply.
C14_HeartBlend ==
    (op = "HeartModel.get_risk_score" /\ result.kind = "float") =>
        LET factors == ClinicalFactors(feature_sets.heart)
        IN  /\ result.value = BlendOf(HeartProbability, SumPoints(factors), SumCaps(factors))
            /\ result.value % 10 = 0

\* probability 0.337 with 5 points of 85: 10.11 + 4.1176... = 14.23
C14_Witness ==
    /\ op = "HeartModel.get_risk_score"
    /\ HeartProbability = Num(337, 1000)
    /\ SumPoints(ClinicalFactors(feature_sets.heart)) = 5
    /\ SumCaps(ClinicalFactors(feature_sets.heart)) = 85
    /\ result = Float(14230)

\* The obesity model has just scored a feature record.
ObesityScored ==
    /\ op = "ObesityModel.get_risk_score"
    /\ result.kind = "float"

BmiBounds  == <<185, 250, 270, 300, 350, 400>>
BmiScores  == <<25, 5, 35, 50, 70, 85, 95>>
ClassScores == <<25, 5, 35, 50, 70, 85, 95>>

\* The bucket score of BMI = Weight / Height^2 (Height in metres): the
\* buckets are <18.5, <25, <27, <30, <35, <40 and >=40.
BucketScore(f) ==
    LET Height == Get(f, "Height", Num(17, 10))
        Weight == Get(f, "Weight", Whole(70))
        Reached == {i \in 1..6 :
                       10 * Weight.v * Height.per * Height.per
                           >= BmiBounds[i] * Weight.per * Height.v * Height.v}
    IN  BmiScores[Cardinality(Reached) + 1]

\* C15: the obesity score is 0.80 * BMI bucket score + 0.20 * class risk,
\* with classes 0..6 scoring 25, 5, 35, 50, 70, 85, 95; at 1.75 m, 95 kg
\* and class 4 it is 70.0.
C15_ObesityBlend ==
    (ObesityScored /\ stored.obesity.label \in 0..6) =>
        LET f == feature_sets.obesity
        IN  /\ 100 * result.value =
                   1000 * (80 * BucketScore(f) + 20 * ClassScores[stored.obesity.label + 1])
            /\ (/\ Get(f, "Height", NoneValue) = Num(175, 100)
                /\ Get(f, "Weight", NoneValue) = Whole(95)
                /\ stored.obesity.label = 4) => result = Float(70000)

\* A BMI on the bound 25 (2.00 m, 100 kg) with class 1: 0.8*35 + 0.2*5 = 29
C15_Witness ==
    /\ ObesityScored
    /\ input.kind = "user_data"
    /\ feature_sets.obesity.Height = Num(200, 100)
    /\ feature_sets.obesity.Weight = Whole(100)
    /\ stored.obesity.label = 1
    /\ result = Float(29000)

ModelOps == {ModelTitle[c] \o "Model.get_risk_score" : c \in Conditions}

\* C16: whenever a model's get_risk_score returns a value, the value lies
\* in [0,100], whatever feature record the mapper produced, whatever
\* probability in [0,1] and whatever class label the classifier answered.
C16_ScoresInRange ==
    (op \in ModelOps /\ ~Raised(result)) =>
        /\ result.kind = "float"
        /\ result.value >= 0
        /\ result.value <= 100000

\* An obesity class outside 0..6 at the top BMI bucket: 0.8*95 + 0.2*50 = 86
C16_Witness ==
    /\ op = "ObesityModel.get_risk_score"
    /\ input.kind = "user_data"
    /\ stored.obesity.label = 9
    /\ result = Float(86000)

-----------------------------------------------------------------------------
(* Loading on demand (under SpecLoading) *)

\* The condition whose model the call named by o belongs to.
CallsModel(o, c) ==
    o \in {ModelTitle[c] \o "Model.predict", ModelTitle[c] \o "Model.get_risk_score"}

-----------------------------------------------------------------------------
(* The mapper's robustness (under SpecModels) *)

required_features ==
    [diabetes |-> {"Pregnancies", "Glucose", "BloodPressure", "SkinThickness",
                   "Insulin", "BMI", "DiabetesPedigreeFunction", "Age"},
     heart |-> {"age", "sex", "cp", "trestbps", "chol", "fbs", "restecg",
                "thalach", "exang", "oldpeak", "slope", "ca", "thal"},
     hypertension |-> {"Age", "BMI", "Cholesterol", "Systolic_BP", "Diastolic_BP",
                       "Smoking_Status", "Alcohol_Intake", "Physical_Activity_Level",
                       "Family_History", "Diabetes", "Stress_Level", "Salt_Intake",
                       "Sleep_Duration", "Heart_Rate", "LDL", "HDL", "Triglycerides",
                       "Glucose", "Gender"},
     obesity |-> {"Gender", "Age", "Height", "Weight",
                  "family_history_with_overweight", "FAVC", "FCVC", "NCP", "CAEC",
                  "SMOKE", "CH2O", "SCC", "FAF", "TUE", "CALC", "MTRANS"}]

\* C20: get_all_features never raises: for every user record it returns
\* four feature records in which every required field has a value.
C20_MapperNeverRaises ==
    op = "get_all_features" =>
        /\ result.kind = "dict"
        /\ DOMAIN result.value = Conditions
        /\ \A c \in Conditions :
               /\ required_features[c] \subseteq DOMAIN result.value[c]
               /\ \A k \in required_features[c] :
                      result.value[c][k].kind \in {"num", "text"}

-----------------------------------------------------------------------------
(* Failed assessments (under SpecAssess) *)

\* The request handled last, and the user record it was assessed on.
LastRequest == input.value[input.handled]

UserDataOf(request) ==
    IF request.call = "api_assess" THEN Coerce(request.arg) ELSE request.arg

\* The model whose get_risk_score raises when assess_health is run on
\* user_data, as a sequence (empty when the assessment fails earlier or not
\* at all).
FailingModel(user_data) ==
    assess_health(weights, risk_thresholds, model, stored, user_data).failed

\* An assessment has just been answered, and a model failed in it.
ModelFailedNow ==
    /\ input.kind = "requests"
    /\ op \in {"api_assess", "assess_and_report"}
    /\ pipeline # NoneValue
    /\ FailingModel(UserDataOf(LastRequest)) # << >>

RiskKeys == {"heart_disease", "diabetes", "hypertension", "obesity"}

\* A report with an entry (score and level) for each of the four
\* conditions.
FourScores(report) ==
    /\ "individual_risks" \in DOMAIN report
    /\ DOMAIN report.individual_risks = RiskKeys
    /\ \A k \in RiskKeys : DOMAIN report.individual_risks[k] = {"score", "level"}

\* The requests handled so far in which all four models scored.
Assessed ==
    {i \in 1..input.handled :
        /\ pipeline # NoneValue
        /\ ~Raised(assess_health(weights, risk_thresholds, model, stored,
                                 UserDataOf(input.value[i])).out)}

\* C18: when a model's get_risk_score fails during an assessment, no report
\* is produced: assess_health raises and the scorer is not called (the
\* scorer has been called once per assessment that succeeded, and no more),
\* api_assess answers success = false, and the session holds, and /results
\* shows, only a report with all four scores, from a request that
\* succeeded.
C18_NoPartialReport ==
    input.kind = "requests" =>
        /\ Len(log) = Cardinality(Assessed)
        /\ (ModelFailedNow /\ op = "assess_and_report") => Raised(result)
        /\ (ModelFailedNow /\ op = "api_assess") =>
               /\ result.body.success = FALSE
               /\ "report" \notin DOMAIN result.body
        /\ session # NoneValue =>
               /\ FourScores(session.report)
               /\ \E i \in Assessed :
                      /\ input.value[i].call = "api_assess"
                      /\ session.user_data = Coerce(input.value[i].arg)
        /\ (op = "results" /\ result.has_results) => FourScores(result.assessment_data)

\* A request fails in the heart model, after the diabetes model has
\* scored, while the session holds the report of the request before it.
C18_Witness ==
    /\ ModelFailedNow
    /\ op = "api_assess"
    /\ input.handled = 2
    /\ FailingModel(UserDataOf(LastRequest)) = <<"heart">>
    /\ result.body.success = FALSE
    /\ session # NoneValue

\* The words by which a message can name a condition.
NamesOf(c) ==
    {c, ModelTitle[c], ModelTitle[c] \o "Model"} \cup
    (IF c = "heart" THEN {"heart_disease", "Heart Disease"} ELSE {})

Identifies(words, c) == \E i \in 1..Len(words) : words[i] \in NamesOf(c)

\* The message that reaches the caller of a failed assessment.
SurfacedError ==
    IF op = "api_assess" THEN result.body.error ELSE Message(result)

\* C19: when an assessment fails because a model cannot score, the error
\* surfaced to the caller names the condition of that model.
C19_ErrorNamesCondition ==
    ModelFailedNow =>
        Identifies(SurfacedError, FailingModel(UserDataOf(LastRequest))[1])

\* Numeric fields of the user record with a feature derived from each and
\* the default the mapper gives that feature when the field is absent.
NumericMappings ==
    {[field |-> "age", cond |-> "diabetes", feature |-> "Age", default |-> Whole(30)],
     [field |-> "age", cond |-> "heart", feature |-> "age", default |-> Whole(30)],
     [field |-> "glucose", cond |-> "diabetes", feature |-> "Glucose", default |-> Whole(100)],
     [field |-> "glucose", cond |-> "hypertension", feature |-> "Glucose", default |-> Whole(100)],
     [field |-> "cholesterol", cond |-> "heart", feature |-> "chol", default |-> Whole(200)],
     [field |-> "cholesterol", cond |-> "hypertension", feature |-> "Cholesterol",
      default |-> Whole(200)],
     [field |-> "weight", cond |-> "obesity", feature |-> "Weight", default |-> Whole(70)]}

\* The user record holds the field with a value that is no number and that
\* float() cannot convert.
NotConvertible(user_data, field) ==
    /\ field \in DOMAIN user_data
    /\ Raised(FloatOf(user_data[field]))

\* C21: a numeric field present with a value that cannot be converted to a
\* number gives its feature the field's default, not the raw value and not
\* an error.
C21_BadNumberTakesDefault ==
    (op = "get_all_features" /\ input.kind = "user_data") =>
        \A mapping \in NumericMappings :
            NotConvertible(input.value, mapping.field) =>
                /\ result.kind = "dict"
                /\ result.value[mapping.cond][mapping.feature] = mapping.default

\* The glucose reading the mapper places in a feature record.
GlucoseOf(features) == features.Glucose

\* C29: the four records use one glucose reading: the diabetes and
\* hypertension records carry the same glucose value, and the heart
\* record's fbs flag is 1 exactly when that value is above 120.
C29_OneGlucoseReading ==
    (op = "get_all_features" /\ result.kind = "dict") =>
        /\ GlucoseOf(result.value.hypertension) = GlucoseOf(result.value.diabetes)
        /\ IsNum(GlucoseOf(result.value.diabetes)) =>
              (EqualsWhole(result.value.heart.fbs, 1)
                  <=> Less(Whole(120), GlucoseOf(result.value.diabetes).v,
                           GlucoseOf(result.value.diabetes).per))

\* The weighting print_about documents, in hundredths.
AboutWeights ==
    [heart |-> 35, diabetes |-> 25, hypertension |-> 25, obesity |-> 15]

\* C23: the weights the scorer applies to four scores, and the table its
\* report names as weights_used, are the documented ones: heart 35%,
\* diabetes 25%, hypertension 25%, obesity 15%.
C23_DocumentedWeights ==
    /\ (CalledOn("calculate_composite_risk") /\ Complete(input.value)) =>
           result = calculate_composite_risk(AboutWeights, input.value)
    /\ (CalledOn("generate_health_report") /\ result.kind = "dict") =>
           /\ result.value.weights_used = SelfWeights
           /\ weights = AboutWeights

IsBullet(line) == line.kind = "bullet"

\* How many bullet lines follow position i of a list without a gap.
RECURSIVE BulletsAfter(_, _)
BulletsAfter(list, i) ==
    IF i < Len(list) /\ IsBullet(list[i + 1])
    THEN 1 + BulletsAfter(list, i + 1)
    ELSE 0

\* The positions of a condition's headline in a list.
HeadlinesOf(list, cond) ==
    {i \in 1..Len(list) : IsHeadline(list[i]) /\ list[i].cond = cond}

\* C24: for every condition, whatever its level, a recommendation list holds
\* exactly one headline of the condition, directly followed by 1 to 3
\* bullet lines; a condition at level critical has the word CRITICAL in its
\* headline and exactly 3 bullet lines after it.
C24_HeadlineThenBullets ==
    ProducedList =>
        /\ IsHeadline(TheList[1])
        /\ \A cond \in Conditions :
               /\ Cardinality(HeadlinesOf(TheList, cond)) = 1
               /\ \A i \in HeadlinesOf(TheList, cond) :
                      /\ BulletsAfter(TheList, i) \in 1..3
                      /\ get_risk_level(risk_thresholds, input.value[cond]) = "critical" =>
                             /\ TheList[i].label = "CRITICAL"
                             /\ BulletsAfter(TheList, i) = 3

C24_Witness ==
    /\ CalledOn("generate_recommendations")
    /\ input.value = heart90_scores
    /\ result.kind = "list"
    /\ result.value[1].label = "CRITICAL"
    /\ BulletsAfter(result.value, 1) = 3
    /\ BulletsAfter(result.value, 5) = 1

\* The key of a condition in individual_risks.
RiskKey ==
    [heart |-> "heart_disease", diabetes |-> "diabetes",
     hypertension |-> "hypertension", obesity |-> "obesity"]

\* The severity words the headlines of the lower levels use.
LowerLabels == {"High", "Moderate", "Low"}

\* C25: in a report the severity word of a condition's headline agrees with
\* the condition's level in individual_risks: CRITICAL is the word exactly
\* of level critical, and level very high has a word of its own, neither
\* CRITICAL nor the word of a lower level.
C25_HeadlineAgreesWithLevel ==
    (CalledOn("generate_health_report") /\ result.kind = "dict") =>
        \A cond \in Conditions :
            \A i \in HeadlinesOf(result.value.recommendations, cond) :
                LET level == result.value.individual_risks[RiskKey[cond]].level
                    label == result.value.recommendations[i].label
                IN  /\ label = "CRITICAL" <=> level = "critical"
                    /\ level = "very high" => label \notin LowerLabels \cup {"CRITICAL"}

\* The grade of the claim's grade table.
GradeOf(x) ==
    IF x >= 90000 THEN "A+"
    ELSE IF x >= 80000 THEN "A"
    ELSE IF x >= 70000 THEN "B"
    ELSE IF x >= 60000 THEN "C"
    ELSE IF x >= 50000 THEN "D"
    ELSE "F"

\* C30: in a report built from four scores in [0,100], risk_level is the
\* bucket of composite_risk and health_grade the grade of health_score,
\* which is 100 minus composite_risk; so a low risk_level comes with grade
\* A+, A or B, and grade F with risk_level high, very high or critical.
C30_LevelAndGradeCoherent ==
    (CalledOn("generate_health_report") /\ Complete(input.value) /\ InRange(input.value)) =>
        /\ result.kind = "dict"
        /\ result.value.risk_level = BucketOf(result.value.composite_risk)
        /\ result.value.health_score = 100000 - result.value.composite_risk
        /\ result.value.health_grade = GradeOf(result.value.health_score)
        /\ result.value.risk_level = "low" => result.value.health_grade \in {"A+", "A", "B"}
        /\ result.value.health_grade = "F" =>
               result.value.risk_level \in {"high", "very high", "critical"}

\* A report of level low with grade B, the lowest grade the level allows.
C30_Witness ==
    /\ CalledOn("generate_health_report")
    /\ InRange(input.value)
    /\ result.kind = "dict"
    /\ result.value.risk_level = "low"
    /\ result.value.health_grade = "B"

\* C26: whatever a consumer does to a returned report, its weights_used
\* entries included, the scorer's weight table stays the one set at
\* construction and every later report has the composite_risk that table
\* gives for its risk_scores.
C26_ReportDetachedFromScorer ==
    /\ weights = InitWeights
    /\ \A i \in 1..Len(log) :
           (log[i].op = "generate_health_report" /\ log[i].result.kind = "dict") =>
               log[i].result.value.composite_risk
                   = calculate_composite_risk(InitWeights, input.value).value

\* The assessment of the request just answered.
LastAssessment ==
    assess_health(weights, risk_thresholds, model, stored, UserDataOf(LastRequest))

\* An assessment has just been answered by a pipeline.
AssessedNow ==
    /\ input.kind = "requests"
    /\ op \in {"api_assess", "assess_and_report"}
    /\ pipeline # NoneValue

IsPrefix(s, t) == Len(s) <= Len(t) /\ s = SubSeq(t, 1, Len(s))

\* C27: within one assess_health the models invoked are, in order, the
\* first ones of diabetes, heart, hypertension, obesity (so each at most
\* once); a failure is that of the last model invoked and is what the call
\* raises, with nothing invoked after it, and without a failure all four
\* are invoked.
C27_OnceInOrderNoRetry ==
    AssessedNow =>
        /\ IsPrefix(LastAssessment.calls, ModelOrder)
        /\ LastAssessment.failed # << >> =>
               /\ LastAssessment.calls[Len(LastAssessment.calls)] = LastAssessment.failed[1]
               /\ Raised(LastAssessment.out)
               /\ DOMAIN LastAssessment.risk_scores
                      = {LastAssessment.calls[k] : k \in 1..(Len(LastAssessment.calls) - 1)}
               /\ op = "assess_and_report" => result = LastAssessment.out
               /\ op = "api_assess" => result.body.success = FALSE
        /\ (LastAssessment.failed = << >> /\ ~Raised(LastAssessment.out)) =>
               LastAssessment.calls = ModelOrder

\* The heart model fails: diabetes and heart were invoked, hypertension and
\* obesity were not.
C27_Witness ==
    /\ AssessedNow
    /\ op = "assess_and_report"
    /\ LastAssessment.failed = <<"heart">>
    /\ LastAssessment.calls = <<"diabetes", "heart">>
    /\ Raised(result)

-----------------------------------------------------------------------------
(* HealthAssessmentPipeline.__init__, and the application that builds one  *)
(* pipeline at start-up and then serves assess_health calls of several     *)
(* callers on it, a step of one caller at a time.                          *)

\* A file at a model_path that pickle cannot read.
Corrupted == [kind |-> "corrupted"]

\* The models that keep the column names of their training data.
KeepColumns == {"hypertension", "obesity"}

\* X.columns.tolist()
Columns == [kind |-> "columns"]

NoColumns == [c \in KeepColumns |-> NoneValue]

\* The classifier train() fits on a condition's dataset (random_state=42).
Trained(cond) == BaseClassifiers[cond]

\* The four model objects and the files at their model_path.
Objects(models, columns, files) ==
    [model |-> models, encoded_columns |-> columns, stored |-> files]

\* self.encoded_columns after an assignment in the model of cond.
WithColumns(columns, cond) ==
    IF cond \in KeepColumns THEN [columns EXCEPT ![cond] = Columns] ELSE columns

\* model.train(dataset): read_csv raises when the dataset is missing;
\* otherwise the columns and the classifier are set and save_model writes
\* the file.
train(cond, objects, datasets) ==
    IF cond \notin datasets
    THEN [out |-> Raise("FileNotFoundError"), objects |-> objects]
    ELSE [out |-> NoneValue,
          objects |-> Objects([objects.model EXCEPT ![cond] = Trained(cond)],
                              WithColumns(objects.encoded_columns, cond),
                              [objects.stored EXCEPT ![cond] = Trained(cond)])]

\* Variant: a model whose file is there is left to be loaded by its first
\* predict().
TryLoad_Deferred(cond, objects) ==
    IF objects.stored[cond] = Corrupted \/ objects.stored[cond] = NoneValue
    THEN [loaded |-> FALSE, objects |-> objects]
    ELSE [loaded |-> TRUE, objects |-> objects]

\* The try block around one load_model() of _load_all_models: TRUE when the
\* model was loaded, FALSE when it goes to models_to_train (no file, or an
\* exception from pickle).
TryLoad(cond, objects) ==
    IF objects.stored[cond] = Corrupted
    THEN [loaded |-> FALSE, objects |-> objects]
    ELSE Bind(load_model(cond, objects.stored[cond]),
              LAMBDA call :
                IF call.out
                THEN [loaded |-> TRUE,
                      objects |-> Objects([objects.model EXCEPT ![cond] = call.model],
                                          WithColumns(objects.encoded_columns, cond),
                                          objects.stored)]
                ELSE [loaded |-> FALSE, objects |-> objects])

\* The four load attempts, in the order of the source.
RECURSIVE LoadEach(_, _, _)
LoadEach(i, objects, models_to_train) ==
    IF i > Len(ModelOrder)
    THEN [objects |-> objects, models_to_train |-> models_to_train]
    ELSE Bind(TryLoad(ModelOrder[i], objects),
              LAMBDA tried :
                LoadEach(i + 1, tried.objects,
                         IF tried.loaded THEN models_to_train
                         ELSE Append(models_to_train, ModelOrder[i])))

\* Variant: a training that fails is passed over.
RECURSIVE TrainEach_PassingOver(_, _, _, _)
TrainEach_PassingOver(k, models_to_train, objects, datasets) ==
    IF k > Len(models_to_train)
    THEN [out |-> NoneValue, objects |-> objects]
    ELSE Bind(train(models_to_train[k], objects, datasets),
              LAMBDA call :
                TrainEach_PassingOver(k + 1, models_to_train, call.objects, datasets))

\* The training loop: the first training that fails ends it and is raised.
RECURSIVE TrainEach(_, _, _, _)
TrainEach(k, models_to_train, objects, datasets) ==
    IF k > Len(models_to_train)
    THEN [out |-> NoneValue, objects |-> objects]
    ELSE Bind(train(models_to_train[k], objects, datasets),
              LAMBDA call :
                IF Raised(call.out) THEN call
                ELSE TrainEach(k + 1, models_to_train, call.objects, datasets))

_load_all_models(objects, datasets) ==
    Bind(LoadEach(1, objects, << >>),
         LAMBDA tried : TrainEach(1, tried.models_to_train, tried.objects, datasets))

_train_all_models(objects, datasets) ==
    TrainEach(1, ModelOrder, objects, datasets)

\* HealthAssessmentPipeline(train_models): None or the exception raised
\* (out), and the model objects and files afterwards.
HealthAssessmentPipeline(train_models, files, datasets) ==
    IF train_models
    THEN _train_all_models(Objects(NoModels, NoColumns, files), datasets)
    ELSE _load_all_models(Objects(NoModels, NoColumns, files), datasets)

\* The global pipeline before start-up has run.
Unbuilt == [kind |-> "unbuilt"]

Callers == {1, 2}

\* The files found at start-up.
FileChoices ==
    {files \in [Conditions -> {NoneValue, Corrupted, Classifier(Num(337, 1000), 1)}] :
        files["diabetes"] # Corrupted /\ files["obesity"] # Corrupted}

\* The datasets found at start-up.
DatasetChoices == {Conditions, Conditions \ {"hypertension"}, {}}

\* What the callers ask: a record every model scores, and one the heart
\* model fails on.
CallerRecords == {HeartCap, [resting_bp |-> Text("abc")]}

Idle == [pc |-> "idle", i |-> 0, features |-> NoneValue, risk_scores |-> NoScores,
         out |-> NoneValue]

InitServe ==
    /\ weights = InitWeights
    /\ risk_thresholds = InitThresholds
    /\ \E train_models \in BOOLEAN, files \in FileChoices, datasets \in DatasetChoices,
          requests \in [Callers -> CallerRecords] :
           /\ input = [kind |-> "deployment", train_models |-> train_models,
                       files |-> files, datasets |-> datasets, requests |-> requests]
           /\ stored = files
    /\ model = NoModels
    /\ encoded_columns = NoColumns
    /\ pipeline = Unbuilt
    /\ threads = [t \in Callers |-> Idle]
    /\ op = "__init__"
    /\ result = NoneValue
    /\ printed = NothingPrinted
    /\ log = << >>
    /\ feature_sets = NoneValue
    /\ session = NoneValue

\* Start-up: the pipeline is constructed; app.py keeps None in its place
\* when the construction raises.
Construct ==
    /\ pipeline = Unbuilt
    /\ \E built \in {HealthAssessmentPipeline(input.train_models, stored, input.datasets)} :
           /\ result' = built.out
           /\ model' = built.objects.model
           /\ encoded_columns' = built.objects.encoded_columns
           /\ stored' = built.objects.stored
           /\ pipeline' = IF Raised(built.out) THEN NoneValue ELSE ThePipeline
    /\ op' = "HealthAssessmentPipeline"
    /\ UNCHANGED <<weights, risk_thresholds, input, printed, log, feature_sets,
                   session, threads>>

Finished(out) == [Idle EXCEPT !.pc = "done", !.out = out]

\* What a caller is told when there is no pipeline.
Unavailable ==
    api_assess(weights, risk_thresholds, NoneValue, model, stored, session,
               EmptyForm).response

\* A caller's request arrives: without a pipeline it is answered at once;
\* with one, assess_health starts and maps the features (step 1).
Enter(t) ==
    /\ pipeline # Unbuilt
    /\ threads[t].pc = "idle"
    /\ \E mapped \in {get_all_features(input.requests[t])} :
           threads' = [threads EXCEPT ![t] =
               IF pipeline = NoneValue THEN Finished(Unavailable)
               ELSE IF Raised(mapped) THEN Finished(mapped)
               ELSE [@ EXCEPT !.pc = "model", !.i = 1, !.features = mapped.value]]
    /\ UNCHANGED <<weights, risk_thresholds, input, op, result, printed, log, model,
                   stored, feature_sets, pipeline, session, encoded_columns>>

\* What a predict() that goes on with a classifier answers, turned into
\* the score: without the column names the alignment loop raises.
Answer(cond, classifier, columns, features) ==
    IF cond \in KeepColumns /\ columns[cond] = NoneValue
    THEN Raise("TypeError")
    ELSE get_risk_score(cond, classifier, classifier, features).out

\* The caller's state after the model of cond answered.
Scored(thread, cond, answer) ==
    IF Raised(answer) THEN Finished(answer)
    ELSE [thread EXCEPT !.risk_scores = @ @@ (cond :> answer.value),
                        !.i = @ + 1,
                        !.pc = IF thread.i = Len(ModelOrder) THEN "report" ELSE "model"]

\* One step of a caller inside get_risk_score of its next model (step 2):
\* predict() finds a classifier and answers; or finds none and load_model
\* assigns self.model (or fails); or load_model, resumed, assigns
\* self.encoded_columns; or predict(), resumed after load_model, answers.
ModelStep(t) ==
    /\ threads[t].pc \in {"model", "loading", "loaded"}
    /\ \E cond \in {ModelOrder[threads[t].i]} :
       \/ /\ threads[t].pc = "model"
          /\ model[cond] # NoneValue
          /\ threads' = [threads EXCEPT ![t] =
                 Scored(@, cond, Answer(cond, model[cond], encoded_columns,
                                        threads[t].features[cond]))]
          /\ UNCHANGED <<model, encoded_columns>>
       \/ /\ threads[t].pc = "model"
          /\ model[cond] = NoneValue
          /\ IF stored[cond] = NoneValue
             THEN /\ threads' = [threads EXCEPT ![t] = Finished(NotLoaded)]
                  /\ UNCHANGED model
             ELSE IF stored[cond] = Corrupted
             THEN /\ threads' = [threads EXCEPT ![t] = Finished(Raise("UnpicklingError"))]
                  /\ UNCHANGED model
             ELSE /\ threads' = [threads EXCEPT ![t].pc = "loading"]
                  /\ model' = [model EXCEPT ![cond] = stored[cond]]
          /\ UNCHANGED encoded_columns
       \/ /\ threads[t].pc = "loading"
          /\ encoded_columns' = WithColumns(encoded_columns, cond)
          /\ threads' = [threads EXCEPT ![t].pc = "loaded"]
          /\ UNCHANGED model
       \/ /\ threads[t].pc = "loaded"
          /\ threads' = [threads EXCEPT ![t] =
                 Scored(@, cond, Answer(cond, model[cond], encoded_columns,
                                        threads[t].features[cond]))]
          /\ UNCHANGED <<model, encoded_columns>>
    /\ UNCHANGED <<weights, risk_thresholds, input, op, result, printed, log,
                   stored, feature_sets, pipeline, session>>

\* The caller's report is generated and returned (steps 3 and 4).
Report(t) ==
    /\ threads[t].pc = "report"
    /\ \E made \in {ReportOn(weights, risk_thresholds, input.requests[t],
                             threads[t].features,
                             [risk_scores |-> threads[t].risk_scores, model |-> model,
                              calls |-> ModelOrder])} :
           threads' = [threads EXCEPT ![t] = [@ EXCEPT !.pc = "done", !.out = made.out]]
    /\ UNCHANGED <<weights, risk_thresholds, input, op, result, printed, log, model,
                   stored, feature_sets, pipeline, session, encoded_columns>>

NextServe ==
    \/ Construct
    \/ \E t \in Callers : Enter(t)
    \/ \E t \in Callers : ModelStep(t)
    \/ \E t \in Callers : Report(t)

SpecServe == InitServe /\ [][NextServe]_vars

\* Start-up has run.
Started == input.kind = "deployment" /\ pipeline # Unbuilt

\* A model that start-up has to train (no usable file, or train_models)
\* has no dataset.
TrainingFails ==
    \E cond \in Conditions :
        /\ cond \notin input.datasets
        /\ input.train_models \/ input.files[cond].kind # "classifier"

\* C28: a pipeline whose construction completed has a classifier in each of
\* its four models, the one in the model's file (loaded from it, or trained
\* and saved to it); when a training fails the construction raises and no
\* pipeline is kept, and then every request is answered with the error
\* that the system is not available, never with a report.
C28_BuiltMeansAllLoaded ==
    Started =>
        /\ pipeline = ThePipeline =>
               /\ ~Raised(result)
               /\ \A cond \in Conditions :
                      /\ model[cond].kind = "classifier"
                      /\ model[cond] = stored[cond]
                      /\ input.train_models \/ input.files[cond].kind # "classifier"
                             => model[cond] = Trained(cond)
               /\ \A cond \in KeepColumns : encoded_columns[cond] = Columns
        /\ TrainingFails <=> pipeline = NoneValue
        /\ pipeline = NoneValue =>
               /\ op = "HealthAssessmentPipeline" /\ Raised(result)
               /\ \A t \in Callers :
                      threads[t].pc # "idle" =>
                          /\ threads[t].pc = "done"
                          /\ threads[t].out = Unavailable
                          /\ threads[t].out.body.success = FALSE
                          /\ "report" \notin DOMAIN threads[t].out.body

\* The hypertension file is corrupted and its training fails: no pipeline,
\* and a caller has been told so.
C28_Witness ==
    /\ Started
    /\ input.files["hypertension"] = Corrupted
    /\ "hypertension" \notin input.datasets
    /\ pipeline = NoneValue
    /\ threads[1].pc = "done"

\* A pipeline built after the missing heart model was trained.
C28_WitnessTrained ==
    /\ Started
    /\ ~input.train_models
    /\ input.files["heart"] = NoneValue
    /\ pipeline = ThePipeline
    /\ model["heart"] = Trained("heart")

\* What the call of caller t returns when it runs alone.
Alone(t) ==
    IF pipeline = NoneValue THEN Unavailable
    ELSE assess_health(weights, risk_thresholds, model, stored, input.requests[t]).out

====
